---- MODULE Spec2Model ----
(***************************************************************************)
(* Connection lifecycle and graceful drain of the WebSocket server.        *)
(*                                                                         *)
(* Two ConnectionManager variants exist in the repository:                 *)
(*   - the map-keyed manager (internal/conn_manager, and the copy in       *)
(*     go/main.go) together with the session handler wsHandler;            *)
(*   - the slice-backed manager (internal/connmanager) with the partial    *)
(*     drain CloseFirstNConnections.                                       *)
(* Spec models the first, SliceSpec the second.                            *)
(*                                                                         *)
(* Time is abstract.  A slow request counts the ticks of its 1-second      *)
(* ticker up to the 30-second ceiling; the timers of the drain's wait      *)
(* loop fire nondeterministically.  A goroutine whose select has a ready   *)
(* case runs before a further tick interval passes.                        *)
(***************************************************************************)
EXTENDS Naturals, Integers, Sequences, FiniteSets, TLC

\* ------------------------------------------------------------------ bounds
MaxConns == 2
MaxMsgs == 1
MaxDrains == 2
MaxCalls == 2
MaxN == 2
QuietMsgs == 2
MaxAdds == 3
MaxLines == 2
MaxSignals == 2
MaxPeers == 2
MaxPeerMsgs == 1
MaxRequests == 2
MaxCtlPeers == 2
MaxSockets == 7
\* Ticks of the 1-second ticker that make up the ceiling of a slow request
\* (30 in the code; the model counts a shorter ceiling).
CeilingTicks == 3

Conns == 1..MaxConns
Drains == 1..MaxDrains
PreStopPeers == 1..MaxPeers
CtlPeers == 1..MaxCtlPeers

\* Inbound payloads: the two slow tokens, a payload shorter than 9
\* characters, the empty payload and a regular payload of 9 or more.
Payloads == {"SLOW_REQUEST", "SLOW_PING_1", "hello", "", "hello world"}

\* ------------------------------------------------------- program constants
\* The control listener, net.Listen("tcp", ":9999"), and the serving
\* listener, Addr ":8080".
ControlPort == 9999
ServingPort == 8080
Ports == {ControlPort, ServingPort}

PrefixLen == 9
\* make([]*websocket.Conn, 100) in NewConnectionManager of the slice-backed
\* manager: the slice starts with 100 nil entries.
InitialLen == 100

VARIABLES
    connections,  \* map-keyed registry: the set of registered connections
    Shutdown,     \* TRUE once the Shutdown channel is closed
    crashed,      \* TRUE once an unrecovered panic has ended the process
    pc,           \* position of each connection's wsHandler
    transport,    \* "open" or "closed" (conn.Close() was called)
    closeSent,    \* a close frame has been written on the connection
    peerClosed,   \* the peer has closed its end
    inbox,        \* inbound messages not yet read
    budget,       \* number of messages the peer may still send
    menu,         \* the payloads the peers choose from
    sent,         \* outbound messages written, in order
    message,      \* the message the handler is processing
    elapsed,      \* loop variable of the slow-work loop, in ticks
    tickPending,  \* the ticker channel holds a tick
    writers,      \* who is inside WriteMessage on the connection
    raced,        \* two WriteMessage calls overlapped on the connection
    dpc,          \* position of each CloseAllConnections call
    snapshot,     \* connections of the call's snapshot still to close
    cur,          \* the connection the call is closing
    slice,        \* slice-backed registry: the connections slice
    ncalls,       \* CloseFirstNConnections calls still to be made
    npc,          \* position of the CloseFirstNConnections call
    narg,         \* its argument n
    nbefore,      \* the registry when the call was made
    nsnap,        \* its snapshot, the result of GetFirstNConnections
    ni,           \* its loop index i
    apc,          \* position of the slice-backed CloseAllConnections call
    arange,       \* the slice its range loop iterates
    ai,           \* its loop index i
    rlock,        \* the calls that hold the read lock of the slice-backed registry
    cpc,          \* position of the control channel's connection handler
    cbind,        \* its binding: "tcp" (handleServiceConnection) or "ipc"
    clines,       \* the lines the control peer has sent
    cpos,         \* how many of them the handler's scanner has returned
    cout,         \* the acknowledgement lines written to the control peer
    cpeerClosed,  \* the control peer has closed its end
    listener,     \* each listener: "unbound", "bound" or "failed"
    exited,       \* the server process has ended (os.Exit, or main returned)
    layout,       \* which main runs: "packages" (cmd/ws_server) or "single" (go/main.go)
    sigq,         \* signals held by the buffered channel given to signal.Notify
    sigs,         \* termination signals delivered to the process so far
    mpc,          \* position of the server's main goroutine
    hpc,          \* position of the handleShutdown goroutine
    inShutdown,   \* http.Server.Shutdown has been called
    variant,      \* which cleanup service runs: "accept" or "gated"
    gate,         \* continueCh is closed
    spc,          \* position of the cleanup service's main goroutine
    kpc,          \* position of the handler of each pre-stop peer
    kin,          \* what each pre-stop peer has sent and its handler has not read
    ksent,        \* how many messages each pre-stop peer has sent
    kmsg,         \* the message each pre-stop peer's handler last read from its peer
    klen,         \* n of that read
    sBuf,         \* the read buffer that all handleConnection goroutines share
    requests,     \* drain requests written to the control channel
    svcPanic,     \* the panic that ended the cleanup service, or "none"
    qconn,        \* each control peer's connection: "none", "backlog", "served", "closed"
    qin,          \* the lines each control peer has sent and its handler has not scanned
    qsent,        \* how many lines each control peer has sent
    qclosed,      \* the control peer has closed its end
    qpc,          \* position of each control peer's handleServiceConnection
    qmsg,         \* msg, the line the handler is working on
    qsnap,        \* the snapshot of the handler's drain
    qi,           \* the loop index of the handler's drain
    qout,         \* the acknowledgement lines written to each control peer
    socks,        \* the sockets a test client has made: retryCount, state, connectionEstablished
    timers,       \* the retryCount arguments of the reconnects set with setTimeout
    attempts      \* calls of connectToApp made for the client

vars == <<connections, Shutdown, crashed, pc, transport, closeSent, peerClosed,
          inbox, budget, menu, sent, message, elapsed, tickPending, writers, raced,
          dpc, snapshot, cur, slice, ncalls, npc, narg, nbefore, nsnap, ni,
          apc, arange, ai, rlock, cpc, cbind, clines, cpos, cout, cpeerClosed,
          listener, exited, layout, sigq, sigs, mpc, hpc, inShutdown,
          variant, gate, spc, kpc, kin, ksent, kmsg, klen, sBuf, requests, svcPanic,
          qconn, qin, qsent, qclosed, qpc, qmsg, qsnap, qi, qout,
          socks, timers, attempts>>

sessVars == <<pc, message, elapsed, tickPending>>
peerVars == <<peerClosed, inbox, budget, menu>>
drainVars == <<dpc, snapshot, cur>>
sliceVars == <<slice, ncalls, npc, narg, nbefore, nsnap, ni, apc, arange, ai, rlock>>
ctlVars == <<cpc, cbind, clines, cpos, cout, cpeerClosed>>
lifeVars == <<layout, sigq, sigs, mpc, hpc, inShutdown>>
svcVars == <<variant, gate, spc, kpc, kin, ksent, kmsg, klen, sBuf, requests, svcPanic>>
lsnVars == <<qconn, qin, qsent, qclosed, qpc, qmsg, qsnap, qi, qout>>
nodeVars == <<socks, timers, attempts>>
bootVars == <<listener, exited, lifeVars, svcVars, lsnVars, nodeVars>>
serverVars == <<connections, Shutdown, crashed, transport, closeSent, sent, writers, raced,
                sessVars, peerVars, drainVars, sliceVars, ctlVars, listener, exited,
                lifeVars, lsnVars, nodeVars>>

nonNodeVars == <<connections, Shutdown, crashed, transport, closeSent, sent, writers, raced,
                 sessVars, peerVars, drainVars, sliceVars, ctlVars, listener, exited,
                 lifeVars, svcVars, lsnVars>>

NoMessage == [payload |-> "", late |-> FALSE]

\* --------------------------------------------------------- registry (map)
AddConnection(conns, c) == conns \cup {c}

\* Mutant of RemoveConnection: the map is cleared.
RemoveConnection_All(conns, c) == {}

RemoveConnection(conns, c) == conns \ {c}

\* ------------------------------------------------------- wire protocol
WelcomeMessage == "WebSocket connection established"

CloseFrame == "close 1001: Server shutting down"

EchoResponse(m) == "Echo: " \o m

InterruptedResponse(e) ==
    "SLOW_INTERRUPTED: Request interrupted by server shutdown after "
        \o ToString(e) \o ".0 seconds"

CompleteResponse == "SLOW_COMPLETE: Slow operation completed after 30 seconds at <RFC3339>"

\* The dispatch of wsHandler on the message just read.  string(message)[:9]
\* is evaluated for every payload other than SLOW_REQUEST and panics (slice
\* bounds out of range) when the payload is shorter than 9 bytes.
Classify(m) ==
    IF m = "SLOW_REQUEST" THEN "slow"
    ELSE IF Len(m) < PrefixLen THEN "panic"
    ELSE IF SubSeq(m, 1, PrefixLen) = "SLOW_PING" THEN "slow"
    ELSE "echo"

\* --------------------------------------------------------------- transport
\* Results WriteMessage can have when the write reaches the wire.  After a
\* close frame was written or the connection was closed every write fails;
\* after the peer has gone a write may or may not fail.  Two overlapping
\* WriteMessage calls are a data race on the connection: each may complete
\* or panic ("concurrent write to websocket connection").
WriteOutcomes(c) ==
    (IF transport[c] = "closed" \/ closeSent[c] THEN {"err"}
     ELSE IF peerClosed[c] THEN {"ok", "err"}
     ELSE {"ok"})
    \cup (IF raced[c] THEN {"panic"} ELSE {})

\* Mutant of CloseTransport: a Close of a closed connection is not a no-op.
CloseTransport_Twice(c) ==
    /\ transport' = [transport EXCEPT ![c] = IF @ = "closed" THEN "open" ELSE "closed"]
    /\ inbox' = [inbox EXCEPT ![c] = <<>>]
    /\ budget' = [budget EXCEPT ![c] = 0]

\* conn.Close(): the connection is closed on this side; what the peer had
\* sent and was not read is dropped, and nothing more arrives.
CloseTransport(c) ==
    /\ transport' = [transport EXCEPT ![c] = "closed"]
    /\ inbox' = [inbox EXCEPT ![c] = <<>>]
    /\ budget' = [budget EXCEPT ![c] = 0]

BeginWrite(c, w) ==
    /\ writers' = [writers EXCEPT ![c] = @ \cup {w}]
    /\ raced' = [raced EXCEPT ![c] = @ \/ writers[c] # {}]

EndWrite(c, w) ==
    /\ writers' = [writers EXCEPT ![c] = @ \ {w}]
    /\ raced' = [raced EXCEPT ![c] = @ /\ writers[c] # {w}]

\* ----------------------------------------------------------------- session
WritePoints == {"welcome", "echo", "interrupt", "complete"}

InWrite == {"welcome_w", "echo_w", "interrupt_w", "complete_w"}

\* The text the handler writes at each write point.
Response(c) ==
    CASE pc[c] = "welcome_w" -> WelcomeMessage
      [] pc[c] = "echo_w" -> EchoResponse(message[c].payload)
      [] pc[c] = "interrupt_w" -> InterruptedResponse(elapsed[c])
      [] pc[c] = "complete_w" -> CompleteResponse

\* Mutant of Return: the exit taken on shutdown skips the deregistration.
Return_SkipRemove(why) == IF why = "shutdown" THEN "defer_close" ELSE "defer_remove"

\* The handler returns (or a panic unwinds it): the deferred function runs,
\* cm.RemoveConnection(conn) first and conn.Close() after it.  why names the
\* exit: "write_error", "panic", "shutdown", "read_error", "interrupted".
Return(why) == "defer_remove"

\* Mutant of AfterWrite: the handler goes back to its loop after the
\* interruption notice too.
AfterWrite_Resume(p) == "loop"

\* Where the handler goes after a write that returned no error.
AfterWrite(p) == IF p = "interrupt_w" THEN Return("interrupted") ELSE "loop"

\* Mutant of LoopContinues: the loop gives up one tick early.
LoopContinues_OneShort(e) == e + 1 < CeilingTicks

\* The condition of the slow-work loop: elapsed < 30*time.Second
LoopContinues(e) == e < CeilingTicks

\* upgrader.Upgrade succeeded; cm.AddConnection(conn)
Upgrade(c) ==
    /\ ~crashed
    /\ pc[c] = "init"
    /\ connections' = AddConnection(connections, c)
    /\ pc' = [pc EXCEPT ![c] = "welcome"]
    /\ UNCHANGED <<Shutdown, crashed, transport, closeSent, sent, message, elapsed,
                   tickPending, writers, raced, peerVars, drainVars, sliceVars, ctlVars, bootVars>>

SessionWriteBegin(c) ==
    /\ ~crashed
    /\ pc[c] \in WritePoints
    /\ BeginWrite(c, "session")
    /\ pc' = [pc EXCEPT ![c] = pc[c] \o "_w"]
    /\ UNCHANGED <<connections, Shutdown, crashed, transport, closeSent, sent, message,
                   elapsed, tickPending, peerVars, drainVars, sliceVars, ctlVars, bootVars>>

\* A write error returns from the handler; a panic unwinds it (net/http
\* recovers panics of a handler); both run the deferred cleanup.
SessionWriteEnd(c) ==
    /\ ~crashed
    /\ pc[c] \in InWrite
    /\ EndWrite(c, "session")
    /\ \E r \in WriteOutcomes(c) :
          IF r = "ok"
          THEN /\ sent' = [sent EXCEPT ![c] = Append(@, Response(c))]
               /\ pc' = [pc EXCEPT ![c] = AfterWrite(pc[c])]
          ELSE /\ sent' = sent
               /\ pc' = [pc EXCEPT ![c] = Return(IF r = "panic" THEN "panic" ELSE "write_error")]
    /\ message' = [message EXCEPT ![c] = NoMessage]
    /\ elapsed' = [elapsed EXCEPT ![c] = 0]
    /\ tickPending' = [tickPending EXCEPT ![c] = FALSE]
    /\ UNCHANGED <<connections, Shutdown, crashed, transport, closeSent, peerVars,
                   drainVars, sliceVars, ctlVars, bootVars>>

\* Top of the message loop: select { case <-cm.Shutdown: return; default: }
LoopSelect(c) ==
    /\ ~crashed
    /\ pc[c] = "loop"
    /\ pc' = [pc EXCEPT ![c] = IF Shutdown THEN Return("shutdown") ELSE "read"]
    /\ UNCHANGED <<connections, Shutdown, crashed, transport, closeSent, sent, message,
                   elapsed, tickPending, writers, raced, peerVars, drainVars, sliceVars, ctlVars, bootVars>>

\* conn.ReadMessage() returns a message, and the handler dispatches on it;
\* a slow request starts the ticker with elapsed = 0.
ReadMessage(c) ==
    /\ ~crashed
    /\ pc[c] = "read"
    /\ transport[c] = "open"
    /\ inbox[c] # <<>>
    /\ inbox' = [inbox EXCEPT ![c] = Tail(@)]
    /\ LET k == Classify(Head(inbox[c]).payload) IN
          /\ pc' = [pc EXCEPT ![c] = IF k = "panic" THEN Return("panic") ELSE k]
          /\ message' = [message EXCEPT ![c] = IF k = "panic" THEN NoMessage ELSE Head(inbox[c])]
    /\ elapsed' = [elapsed EXCEPT ![c] = 0]
    /\ tickPending' = [tickPending EXCEPT ![c] = FALSE]
    /\ UNCHANGED <<connections, Shutdown, crashed, transport, closeSent, sent,
                   writers, raced, peerClosed, budget, menu, drainVars, sliceVars, ctlVars, bootVars>>

\* Mutant of ReadError: the handler logs the error and goes on with the loop.
ReadError_Continue(c) ==
    /\ ~crashed
    /\ pc[c] = "read"
    /\ transport[c] = "closed" \/ (peerClosed[c] /\ inbox[c] = <<>>)
    /\ pc' = [pc EXCEPT ![c] = "loop"]
    /\ UNCHANGED <<connections, Shutdown, crashed, transport, closeSent, sent, message,
                   elapsed, tickPending, writers, raced, peerVars, drainVars, sliceVars, ctlVars, bootVars>>

\* conn.ReadMessage() returns an error: the connection was closed on this
\* side, or the peer has closed and nothing is left to read.
ReadError(c) ==
    /\ ~crashed
    /\ pc[c] = "read"
    /\ transport[c] = "closed" \/ (peerClosed[c] /\ inbox[c] = <<>>)
    /\ pc' = [pc EXCEPT ![c] = Return("read_error")]
    /\ UNCHANGED <<connections, Shutdown, crashed, transport, closeSent, sent, message,
                   elapsed, tickPending, writers, raced, peerVars, drainVars, sliceVars, ctlVars, bootVars>>

\* The 1-second ticker of a slow request fires.
Tick(c) ==
    /\ ~crashed
    /\ pc[c] = "slow"
    /\ ~tickPending[c]
    /\ ~Shutdown
    /\ tickPending' = [tickPending EXCEPT ![c] = TRUE]
    /\ UNCHANGED <<connections, Shutdown, crashed, pc, transport, closeSent, sent,
                   message, elapsed, writers, raced, peerVars, drainVars, sliceVars, ctlVars, bootVars>>

\* select { case <-cm.Shutdown: ... } of the slow-work loop
SlowInterrupted(c) ==
    /\ ~crashed
    /\ pc[c] = "slow"
    /\ Shutdown
    /\ pc' = [pc EXCEPT ![c] = "interrupt"]
    /\ UNCHANGED <<connections, Shutdown, crashed, transport, closeSent, sent, message,
                   elapsed, tickPending, writers, raced, peerVars, drainVars, sliceVars, ctlVars, bootVars>>

\* select { case <-ticker.C: } then elapsed = time.Since(startTime) and the
\* loop condition elapsed < 30*time.Second
SlowTick(c) ==
    /\ ~crashed
    /\ pc[c] = "slow"
    /\ tickPending[c]
    /\ tickPending' = [tickPending EXCEPT ![c] = FALSE]
    /\ elapsed' = [elapsed EXCEPT ![c] = @ + 1]
    /\ pc' = [pc EXCEPT ![c] = IF LoopContinues(elapsed[c] + 1) THEN "slow" ELSE "complete"]
    /\ UNCHANGED <<connections, Shutdown, crashed, transport, closeSent, sent, message,
                   writers, raced, peerVars, drainVars, sliceVars, ctlVars, bootVars>>

\* deferred: cm.RemoveConnection(conn)
DeferRemove(c) ==
    /\ ~crashed
    /\ pc[c] = "defer_remove"
    /\ connections' = RemoveConnection(connections, c)
    /\ pc' = [pc EXCEPT ![c] = "defer_close"]
    /\ UNCHANGED <<Shutdown, crashed, transport, closeSent, sent, message, elapsed,
                   tickPending, writers, raced, peerVars, drainVars, sliceVars, ctlVars, bootVars>>

\* deferred: conn.Close()
DeferClose(c) ==
    /\ ~crashed
    /\ pc[c] = "defer_close"
    /\ CloseTransport(c)
    /\ pc' = [pc EXCEPT ![c] = "closed"]
    /\ UNCHANGED <<connections, Shutdown, crashed, closeSent, sent, message, elapsed,
                   tickPending, writers, raced, peerClosed, menu, drainVars, sliceVars, ctlVars, bootVars>>

\* -------------------------------------------------------------------- peer
PeerSend(c, m) ==
    /\ ~crashed
    /\ pc[c] \notin {"off", "init", "closed"}
    /\ transport[c] = "open"
    /\ ~peerClosed[c]
    /\ budget[c] > 0
    /\ m \in menu
    /\ inbox' = [inbox EXCEPT ![c] = Append(@, [payload |-> m, late |-> Shutdown])]
    /\ budget' = [budget EXCEPT ![c] = @ - 1]
    /\ UNCHANGED <<connections, Shutdown, crashed, transport, closeSent, sent, writers,
                   raced, peerClosed, menu, sessVars, drainVars, sliceVars, ctlVars, bootVars>>

PeerClose(c) ==
    /\ ~crashed
    /\ pc[c] \notin {"off", "init", "closed"}
    /\ ~peerClosed[c]
    /\ peerClosed' = [peerClosed EXCEPT ![c] = TRUE]
    /\ budget' = [budget EXCEPT ![c] = 0]
    /\ UNCHANGED <<connections, Shutdown, crashed, transport, closeSent, sent, writers,
                   raced, inbox, menu, sessVars, drainVars, sliceVars, ctlVars, bootVars>>

\* ------------------------------------------------- CloseAllConnections (map)
\* Mutant of AllClosed: the wait loop returns with one connection left.
AllClosed_OneLeft(conns) == Cardinality(conns) <= 1

\* The wait loop returns through "All WebSocket connections closed".
AllClosed(conns) == Cardinality(conns) = 0

\* Mutant of DrainSnapshot: the call goes straight to its close loop and
\* never closes the Shutdown channel.
DrainSnapshot_SkipSignal(d) ==
    /\ ~crashed
    /\ dpc[d] = "idle"
    /\ snapshot' = [snapshot EXCEPT ![d] = connections]
    /\ dpc' = [dpc EXCEPT ![d] = "next"]
    /\ UNCHANGED <<connections, Shutdown, crashed, transport, closeSent, sent, writers,
                   raced, cur, sessVars, peerVars, sliceVars, ctlVars, bootVars>>

\* Snapshot of the registry under the read lock.
DrainSnapshot(d) ==
    /\ ~crashed
    /\ dpc[d] = "idle"
    /\ snapshot' = [snapshot EXCEPT ![d] = connections]
    /\ dpc' = [dpc EXCEPT ![d] = "signal"]
    /\ UNCHANGED <<connections, Shutdown, crashed, transport, closeSent, sent, writers,
                   raced, cur, sessVars, peerVars, sliceVars, ctlVars, bootVars>>

\* Mutant of DrainSignal: a call that finds the channel closed replaces it
\* with a new one.
DrainSignal_Remake(d) ==
    /\ ~crashed
    /\ dpc[d] = "signal"
    /\ Shutdown' = ~Shutdown
    /\ dpc' = [dpc EXCEPT ![d] = "next"]
    /\ UNCHANGED <<connections, crashed, transport, closeSent, sent, writers, raced,
                   snapshot, cur, sessVars, peerVars, sliceVars, ctlVars, bootVars>>

\* close(cm.Shutdown): closing a closed channel panics, and the panic of a
\* goroutine nobody recovers ends the process.
DrainSignal(d) ==
    /\ ~crashed
    /\ dpc[d] = "signal"
    /\ IF Shutdown
       THEN /\ crashed' = TRUE
            /\ UNCHANGED <<Shutdown, dpc>>
       ELSE /\ Shutdown' = TRUE
            /\ dpc' = [dpc EXCEPT ![d] = "next"]
            /\ crashed' = crashed
    /\ UNCHANGED <<connections, transport, closeSent, sent, writers, raced, snapshot,
                   cur, sessVars, peerVars, sliceVars, ctlVars, bootVars>>

\* Next connection of the snapshot (map iteration order is unspecified);
\* conn.WriteMessage(websocket.CloseMessage, ...) starts.
DrainWriteBegin(d) ==
    /\ ~crashed
    /\ dpc[d] = "next"
    /\ \E c \in snapshot[d] :
          /\ cur' = [cur EXCEPT ![d] = c]
          /\ snapshot' = [snapshot EXCEPT ![d] = @ \ {c}]
          /\ BeginWrite(c, "coord")
    /\ dpc' = [dpc EXCEPT ![d] = "write_w"]
    /\ UNCHANGED <<connections, Shutdown, crashed, transport, closeSent, sent, sessVars,
                   peerVars, sliceVars, ctlVars, bootVars>>

\* The close frame reaches the wire or the write fails (logged).
DrainWriteEnd(d) ==
    /\ ~crashed
    /\ dpc[d] = "write_w"
    /\ EndWrite(cur[d], "coord")
    /\ \E r \in WriteOutcomes(cur[d]) :
          /\ sent' = IF r = "ok" THEN [sent EXCEPT ![cur[d]] = Append(@, CloseFrame)] ELSE sent
          /\ closeSent' = IF r = "ok" THEN [closeSent EXCEPT ![cur[d]] = TRUE] ELSE closeSent
          /\ crashed' = (r = "panic")
    /\ dpc' = [dpc EXCEPT ![d] = "close"]
    /\ UNCHANGED <<connections, Shutdown, transport, snapshot, cur, sessVars, peerVars, sliceVars, ctlVars, bootVars>>

\* conn.Close()
DrainClose(d) ==
    /\ ~crashed
    /\ dpc[d] = "close"
    /\ CloseTransport(cur[d])
    /\ cur' = [cur EXCEPT ![d] = 0]
    /\ dpc' = [dpc EXCEPT ![d] = "next"]
    /\ UNCHANGED <<connections, Shutdown, crashed, closeSent, sent, writers, raced,
                   snapshot, sessVars, peerClosed, menu, sliceVars, ctlVars, bootVars>>

\* The snapshot is exhausted: the wait loop starts.
DrainWait(d) ==
    /\ ~crashed
    /\ dpc[d] = "next"
    /\ snapshot[d] = {}
    /\ dpc' = [dpc EXCEPT ![d] = "wait"]
    /\ UNCHANGED <<connections, Shutdown, crashed, transport, closeSent, sent, writers,
                   raced, snapshot, cur, sessVars, peerVars, sliceVars, ctlVars, bootVars>>

\* case <-ticker.C: count := len(cm.connections); if count == 0 { return }
DrainPoll(d) ==
    /\ ~crashed
    /\ dpc[d] = "wait"
    /\ AllClosed(connections)
    /\ dpc' = [dpc EXCEPT ![d] = "all_closed"]
    /\ UNCHANGED <<connections, Shutdown, crashed, transport, closeSent, sent, writers,
                   raced, snapshot, cur, sessVars, peerVars, sliceVars, ctlVars, bootVars>>

\* case <-timeout.C
DrainTimeout(d) ==
    /\ ~crashed
    /\ dpc[d] = "wait"
    /\ dpc' = [dpc EXCEPT ![d] = "timeout"]
    /\ UNCHANGED <<connections, Shutdown, crashed, transport, closeSent, sent, writers,
                   raced, snapshot, cur, sessVars, peerVars, sliceVars, ctlVars, bootVars>>

\* case <-ctx.Done()
DrainCancelled(d) ==
    /\ ~crashed
    /\ dpc[d] = "wait"
    /\ dpc' = [dpc EXCEPT ![d] = "cancelled"]
    /\ UNCHANGED <<connections, Shutdown, crashed, transport, closeSent, sent, writers,
                   raced, snapshot, cur, sessVars, peerVars, sliceVars, ctlVars, bootVars>>

\* ------------------------------------------------- registry (slice-backed)
Nil == 0

Min(a, b) == IF a < b THEN a ELSE b

\* NewConnectionManager: connections: make([]*websocket.Conn, 100)
NewConnections == [i \in 1..InitialLen |-> Nil]

\* AddConnection: cm.connections = append(cm.connections, conn)
SliceAdd(s, c) == Append(s, c)

\* slices.Delete(cm.connections, index, index+1), index counted from 0
SliceDelete(s, i) == [j \in 1..(Len(s) - 1) |-> IF j <= i THEN s[j] ELSE s[j + 1]]

\* GetFirstNConnections: connections := make([]*websocket.Conn, n), then
\* copy(connections, cm.connections[:min(n, len(cm.connections))])
GetFirstNConnections(s, n) ==
    [i \in 1..n |-> IF i <= Min(n, Len(s)) THEN s[i] ELSE Nil]

\* GetConnectionsCount: len(cm.connections)
GetConnectionsCount(s) == Len(s)

\* The connections of a slice that are not nil, in order.
Real(s) == SelectSeq(s, LAMBDA x : x # Nil)

Range(s) == {s[i] : i \in 1..Len(s)}

\* A connection is upgraded and cm.AddConnection(conn) appends it.
SliceAddConnection(c) ==
    /\ ~crashed
    /\ pc[c] = "init"
    /\ slice' = SliceAdd(slice, c)
    /\ pc' = [pc EXCEPT ![c] = "served"]
    /\ UNCHANGED <<connections, Shutdown, crashed, transport, closeSent, sent, message,
                   elapsed, tickPending, writers, raced, peerVars, drainVars, ncalls,
                   npc, narg, nbefore, nsnap, ni, apc, arange, ai, rlock, ctlVars, bootVars>>

\* The arguments a peer of the control channel sends: negative, zero, small,
\* and at least the length of the slice.
NArgs == (-1..MaxN) \cup {InitialLen + k : k \in 0..MaxN}

\* CloseFirstNConnections(n) is called: connections := cm.GetFirstNConnections(n).
\* make with a negative length panics.
CloseFirstNCall(n) ==
    /\ ~crashed
    /\ npc \in {"idle", "done"}
    /\ ncalls > 0
    /\ ncalls' = ncalls - 1
    /\ narg' = n
    /\ nbefore' = slice
    /\ IF n < 0
       THEN /\ crashed' = TRUE
            /\ UNCHANGED <<npc, nsnap, ni>>
       ELSE /\ nsnap' = GetFirstNConnections(slice, n)
            /\ ni' = 0
            /\ npc' = "loop"
            /\ crashed' = crashed
    /\ UNCHANGED <<connections, Shutdown, transport, closeSent, sent, writers, raced,
                   sessVars, peerVars, drainVars, slice, apc, arange, ai, rlock, ctlVars, bootVars>>

\* One iteration of for i, conn := range connections: conn.WriteMessage of
\* the close frame (a nil conn panics), conn.Close(), cm.RemoveConnection(i);
\* slices.Delete panics when i+1 exceeds the length.
CloseFirstNIter ==
    /\ ~crashed
    /\ npc = "loop"
    /\ IF ni >= Len(nsnap)
       THEN /\ npc' = "done"
            /\ UNCHANGED <<crashed, transport, inbox, budget, closeSent, sent, slice, ni>>
       ELSE LET conn == nsnap[ni + 1] IN
            IF conn = Nil
            THEN /\ crashed' = TRUE
                 /\ UNCHANGED <<npc, transport, inbox, budget, closeSent, sent, slice, ni>>
            ELSE /\ \E r \in WriteOutcomes(conn) :
                       /\ sent' = IF r = "ok" THEN [sent EXCEPT ![conn] = Append(@, CloseFrame)]
                                  ELSE sent
                       /\ closeSent' = IF r = "ok" THEN [closeSent EXCEPT ![conn] = TRUE]
                                       ELSE closeSent
                 /\ CloseTransport(conn)
                 /\ IF ni + 1 > Len(slice)
                    THEN crashed' = TRUE /\ slice' = slice
                    ELSE crashed' = crashed /\ slice' = SliceDelete(slice, ni)
                 /\ ni' = ni + 1
                 /\ npc' = npc
    /\ UNCHANGED <<connections, Shutdown, writers, raced, sessVars, peerClosed, menu,
                   drainVars, ncalls, narg, nbefore, nsnap, apc, arange, ai, rlock, ctlVars, bootVars>>

\* CloseAllConnections of the slice-backed manager: cm.mu.RLock() with a
\* deferred RUnlock, so the read lock is held until the call returns, then
\* close(cm.Shutdown).
SliceCloseAllBegin ==
    /\ ~crashed
    /\ apc = "idle"
    /\ rlock' = rlock \cup {"CloseAllConnections"}
    /\ IF Shutdown
       THEN crashed' = TRUE /\ UNCHANGED <<Shutdown, apc, arange, ai>>
       ELSE /\ Shutdown' = TRUE
            /\ arange' = slice
            /\ ai' = 0
            /\ apc' = "loop"
            /\ crashed' = crashed
    /\ UNCHANGED <<connections, transport, closeSent, sent, writers, raced, sessVars,
                   peerVars, drainVars, slice, ncalls, npc, narg, nbefore, nsnap, ni, ctlVars, bootVars>>

\* The rest of the call, one step at a time.  In the range loop a nil conn
\* panics in WriteMessage; after WriteMessage and Close of a real one,
\* cm.RemoveConnection(i) asks for the write lock while this goroutine holds
\* the read lock, and blocks.  After the loop the call polls the length.
SliceCloseAllStep ==
    /\ ~crashed
    /\ apc \in {"loop", "wait"}
    /\ IF apc = "wait"
       THEN /\ apc' = IF GetConnectionsCount(slice) = 0 THEN "all_closed" ELSE "timeout"
            /\ UNCHANGED <<crashed, transport, inbox, budget, closeSent, sent, ai>>
       ELSE IF ai >= Len(arange)
       THEN /\ apc' = "wait"
            /\ UNCHANGED <<crashed, transport, inbox, budget, closeSent, sent, ai>>
       ELSE LET conn == arange[ai + 1] IN
            IF conn = Nil
            THEN /\ crashed' = TRUE
                 /\ UNCHANGED <<apc, transport, inbox, budget, closeSent, sent, ai>>
            ELSE /\ \E r \in WriteOutcomes(conn) :
                       /\ sent' = IF r = "ok" THEN [sent EXCEPT ![conn] = Append(@, CloseFrame)]
                                  ELSE sent
                       /\ closeSent' = IF r = "ok" THEN [closeSent EXCEPT ![conn] = TRUE]
                                       ELSE closeSent
                 /\ CloseTransport(conn)
                 /\ apc' = "deadlock"
                 /\ UNCHANGED <<crashed, ai>>
    /\ UNCHANGED <<connections, Shutdown, writers, raced, sessVars, peerClosed, menu,
                   drainVars, slice, ncalls, npc, narg, nbefore, nsnap, ni, arange, ctlVars, bootVars>>
    /\ rlock' = IF apc' \in {"all_closed", "timeout"}
                THEN rlock \ {"CloseAllConnections"} ELSE rlock

\* ----------------------------------------------------------- specification
\* The state after NewConnectionManager(): cs are the connections that will
\* be upgraded, n the messages each peer may send, ds the CloseAllConnections
\* calls that will be made on the map-keyed manager, ps the payloads the
\* peers choose from, k the CloseFirstNConnections calls and a whether
\* CloseAllConnections is called on the slice-backed manager.
InitWith(cs, n, ds, ps, k, a) ==
    /\ connections = {}
    /\ Shutdown = FALSE
    /\ crashed = FALSE
    /\ pc = [c \in Conns |-> IF c \in cs THEN "init" ELSE "off"]
    /\ transport = [c \in Conns |-> "open"]
    /\ closeSent = [c \in Conns |-> FALSE]
    /\ peerClosed = [c \in Conns |-> FALSE]
    /\ inbox = [c \in Conns |-> <<>>]
    /\ budget = [c \in Conns |-> n]
    /\ menu = ps
    /\ sent = [c \in Conns |-> <<>>]
    /\ message = [c \in Conns |-> NoMessage]
    /\ elapsed = [c \in Conns |-> 0]
    /\ tickPending = [c \in Conns |-> FALSE]
    /\ writers = [c \in Conns |-> {}]
    /\ raced = [c \in Conns |-> FALSE]
    /\ dpc = [d \in Drains |-> IF d \in ds THEN "idle" ELSE "off"]
    /\ snapshot = [d \in Drains |-> {}]
    /\ cur = [d \in Drains |-> 0]
    /\ slice = NewConnections
    /\ ncalls = k
    /\ npc = "idle"
    /\ narg = 0
    /\ nbefore = <<>>
    /\ nsnap = <<>>
    /\ ni = 0
    /\ apc = IF a THEN "idle" ELSE "off"
    /\ arange = <<>>
    /\ ai = 0
    /\ rlock = {}
    /\ cpc = "off"
    /\ cbind = "none"
    /\ clines = <<>>
    /\ cpos = 0
    /\ cout = <<>>
    /\ cpeerClosed = FALSE
    /\ listener = [p \in Ports |-> "unbound"]
    /\ exited = FALSE
    /\ layout = "none"
    /\ sigq = 0
    /\ sigs = 0
    /\ mpc = "off"
    /\ hpc = "off"
    /\ inShutdown = FALSE
    /\ variant = "none"
    /\ gate = FALSE
    /\ spc = "off"
    /\ kpc = [p \in PreStopPeers |-> "none"]
    /\ kin = [p \in PreStopPeers |-> <<>>]
    /\ ksent = [p \in PreStopPeers |-> 0]
    /\ kmsg = [p \in PreStopPeers |-> ""]
    /\ klen = [p \in PreStopPeers |-> 0]
    /\ sBuf = ""
    /\ requests = 0
    /\ svcPanic = "none"
    /\ qconn = [q \in CtlPeers |-> "none"]
    /\ qin = [q \in CtlPeers |-> <<>>]
    /\ qsent = [q \in CtlPeers |-> 0]
    /\ qclosed = [q \in CtlPeers |-> FALSE]
    /\ qpc = [q \in CtlPeers |-> "off"]
    /\ qmsg = [q \in CtlPeers |-> ""]
    /\ qsnap = [q \in CtlPeers |-> <<>>]
    /\ qi = [q \in CtlPeers |-> 0]
    /\ qout = [q \in CtlPeers |-> <<>>]
    /\ socks = <<>>
    /\ timers = <<>>
    /\ attempts = 0

\* Map-keyed manager: every connection is served and CloseAllConnections is
\* called once.
Init == InitWith(Conns, MaxMsgs, {1}, {"SLOW_REQUEST", "hello", "hello world"}, 0, FALSE)

Next ==
    \/ \E c \in Conns : Upgrade(c)
    \/ \E c \in Conns : SessionWriteBegin(c)
    \/ \E c \in Conns : SessionWriteEnd(c)
    \/ \E c \in Conns : LoopSelect(c)
    \/ \E c \in Conns : ReadMessage(c)
    \/ \E c \in Conns : ReadError(c)
    \/ \E c \in Conns : Tick(c)
    \/ \E c \in Conns : SlowInterrupted(c)
    \/ \E c \in Conns : SlowTick(c)
    \/ \E c \in Conns : DeferRemove(c)
    \/ \E c \in Conns : DeferClose(c)
    \/ \E c \in Conns, m \in Payloads : PeerSend(c, m)
    \/ \E c \in Conns : PeerClose(c)
    \/ \E d \in Drains : DrainSnapshot(d)
    \/ \E d \in Drains : DrainSignal(d)
    \/ \E d \in Drains : DrainWriteBegin(d)
    \/ \E d \in Drains : DrainWriteEnd(d)
    \/ \E d \in Drains : DrainClose(d)
    \/ \E d \in Drains : DrainWait(d)
    \/ \E d \in Drains : DrainPoll(d)
    \/ \E d \in Drains : DrainTimeout(d)
    \/ \E d \in Drains : DrainCancelled(d)

Spec == Init /\ [][Next]_vars

\* The steps of a handler's goroutine once its connection is upgraded, and
\* the steps of a CloseAllConnections call, its timers included.
HandlerStep(c) ==
    \/ SessionWriteBegin(c)
    \/ SessionWriteEnd(c)
    \/ LoopSelect(c)
    \/ ReadMessage(c)
    \/ ReadError(c)
    \/ SlowInterrupted(c)
    \/ SlowTick(c)
    \/ DeferRemove(c)
    \/ DeferClose(c)

DrainStep(d) ==
    \/ DrainSnapshot(d)
    \/ DrainSignal(d)
    \/ DrainWriteBegin(d)
    \/ DrainWriteEnd(d)
    \/ DrainClose(d)
    \/ DrainWait(d)
    \/ DrainPoll(d)
    \/ DrainTimeout(d)
    \/ DrainCancelled(d)

\* The same program with its goroutines scheduled: a handler and a drain
\* that can take a step eventually take one.  Nothing is assumed of the
\* peers: they may never send and never close.
FairInit == InitWith(Conns, MaxMsgs, {1}, {"SLOW_REQUEST"}, 0, FALSE)

FairSpec ==
    /\ FairInit
    /\ [][Next]_vars
    /\ \A c \in Conns : WF_vars(HandlerStep(c))
    /\ \A d \in Drains : WF_vars(DrainStep(d))

\* One connection whose handler and ticker are scheduled: a handler that
\* can take a step and a ticker that can fire eventually do.  Nothing is
\* assumed of the peer, nor of CloseAllConnections, which may never be called.
TickFairInit == InitWith({1}, MaxMsgs, {1}, {"SLOW_REQUEST", "hello world"}, 0, FALSE)

TickFairSpec ==
    /\ TickFairInit
    /\ [][Next]_vars
    /\ \A c \in Conns : WF_vars(HandlerStep(c)) /\ WF_vars(Tick(c))

\* Map-keyed manager, one connection, CloseAllConnections called MaxDrains
\* times (by concurrent callers).
DoubleInit == InitWith({1}, MaxMsgs, Drains, {"SLOW_REQUEST", "hello", "hello world"}, 0, FALSE)

DoubleSpec == DoubleInit /\ [][Next]_vars

\* Slice-backed manager: connections are added, the control channel calls
\* CloseFirstNConnections and the shutdown hook CloseAllConnections.
SliceInit == InitWith(Conns, 0, {}, {}, MaxCalls, TRUE)

SliceNext ==
    \/ \E c \in Conns : SliceAddConnection(c)
    \/ \E n \in NArgs : CloseFirstNCall(n)
    \/ CloseFirstNIter
    \/ SliceCloseAllBegin
    \/ SliceCloseAllStep

SliceSpec == SliceInit /\ [][SliceNext]_vars

\* The same, with the goroutine that runs CloseAllConnections scheduled
\* for as long as it can take a step.
SliceFairSpec == SliceInit /\ [][SliceNext]_vars /\ WF_vars(SliceCloseAllStep)

\* One session with a healthy transport and no shutdown: the peer sends up
\* to QuietMsgs messages and never closes.  The handler's goroutine keeps
\* running and the ticker keeps firing.
QuietInit == InitWith({1}, QuietMsgs, {}, Payloads, 0, FALSE)

SessionStep(c) ==
    \/ Upgrade(c)
    \/ SessionWriteBegin(c)
    \/ SessionWriteEnd(c)
    \/ LoopSelect(c)
    \/ ReadMessage(c)
    \/ SlowTick(c)
    \/ DeferRemove(c)
    \/ DeferClose(c)

QuietNext ==
    \/ \E c \in Conns : SessionStep(c)
    \/ \E c \in Conns : Tick(c)
    \/ \E c \in Conns, m \in Payloads : PeerSend(c, m)

QuietSpec ==
    /\ QuietInit
    /\ [][QuietNext]_vars
    /\ \A c \in Conns : WF_vars(SessionStep(c)) /\ WF_vars(Tick(c))

\* The registries driven through their operations alone, by any caller in
\* any order: AddConnection of any connection (the same one again included)
\* on both managers, RemoveConnection(conn) on the map-keyed one and
\* RemoveConnection(index) on the slice-backed one.  At most MaxAdds
\* connections are held by the slice at a time.
RegistryInit == InitWith({}, 0, {}, {}, 0, FALSE)

RegistryAdd(c) ==
    /\ ~crashed
    /\ Len(Real(slice)) < MaxAdds
    /\ connections' = AddConnection(connections, c)
    /\ slice' = SliceAdd(slice, c)
    /\ UNCHANGED <<Shutdown, crashed, transport, closeSent, sent, writers, raced,
                   sessVars, peerVars, drainVars, ncalls, npc, narg, nbefore, nsnap,
                   ni, apc, arange, ai, rlock, ctlVars, bootVars>>

RegistryRemove(c) ==
    /\ ~crashed
    /\ connections' = RemoveConnection(connections, c)
    /\ UNCHANGED <<Shutdown, crashed, transport, closeSent, sent, writers, raced,
                   sessVars, peerVars, drainVars, sliceVars, ctlVars, bootVars>>

\* slices.Delete(s, i, i+1) panics when i+1 exceeds len(s).
RegistryRemoveIndex(i) ==
    /\ ~crashed
    /\ IF i + 1 > Len(slice)
       THEN crashed' = TRUE /\ slice' = slice
       ELSE crashed' = crashed /\ slice' = SliceDelete(slice, i)
    /\ UNCHANGED <<connections, Shutdown, transport, closeSent, sent, writers, raced,
                   sessVars, peerVars, drainVars, ncalls, npc, narg, nbefore, nsnap,
                   ni, apc, arange, ai, rlock, ctlVars, bootVars>>

RegistryNext ==
    \/ \E c \in Conns : RegistryAdd(c)
    \/ \E c \in Conns : RegistryRemove(c)
    \/ \E i \in 0..(InitialLen + MaxAdds) : RegistryRemoveIndex(i)

RegistrySpec == RegistryInit /\ [][RegistryNext]_vars

\* ---------------------------------------------------------- control channel
\* Lines a control peer sends: not numbers, numbers with and without sign,
\* a negative one, and one past the slice's initial length.
CtlLines == {"abc", "", "1x", "0", "+0", "1", "-1", "101"}

Digits == "0123456789"

IsDigit(ch) == \E d \in 0..9 : SubSeq(Digits, d + 1, d + 1) = ch

DigitOf(ch) == CHOOSE d \in 0..9 : SubSeq(Digits, d + 1, d + 1) = ch

RECURSIVE DecimalValue(_)
DecimalValue(b) ==
    IF Len(b) = 0 THEN 0
    ELSE DecimalValue(SubSeq(b, 1, Len(b) - 1)) * 10 + DigitOf(SubSeq(b, Len(b), Len(b)))

\* strconv.Atoi: an optional sign and then one or more decimal digits;
\* anything else is an error.
Atoi(l) ==
    LET signed == Len(l) > 0 /\ SubSeq(l, 1, 1) \in {"+", "-"}
        b == IF signed THEN SubSeq(l, 2, Len(l)) ELSE l
    IN IF Len(b) = 0 \/ \E i \in 1..Len(b) : ~IsDigit(SubSeq(b, i, i))
       THEN [ok |-> FALSE, n |-> 0]
       ELSE [ok |-> TRUE,
             n |-> IF signed /\ SubSeq(l, 1, 1) = "-" THEN 0 - DecimalValue(b)
                   ELSE DecimalValue(b)]

\* "Closing "+msg+" WS connections": the line as received, not the number.
AckLine(l) == "Closing " \o l \o " WS connections"

\* Mutant of AfterParseError: the handler returns on a line it cannot parse.
AfterParseError_Return == "closed"

\* if err != nil { slog.Error(...); continue }
AfterParseError == "scan"

\* Results of the write of the acknowledgement to the control peer.
AckOutcomes == IF cpeerClosed THEN {"ok", "err"} ELSE {"ok"}

\* ln.Accept() returned a connection and its handler was started.
CtlAccept(b) ==
    /\ ~crashed
    /\ UNCHANGED bootVars
    /\ cpc = "off"
    /\ cpc' = "scan"
    /\ cbind' = b
    /\ UNCHANGED <<connections, Shutdown, crashed, transport, closeSent, sent, writers,
                   raced, sessVars, peerVars, drainVars, sliceVars, clines, cpos, cout,
                   cpeerClosed>>

CtlPeerSend(l) ==
    /\ ~crashed
    /\ UNCHANGED bootVars
    /\ cpc \notin {"off", "closed"}
    /\ ~cpeerClosed
    /\ Len(clines) < MaxLines
    /\ clines' = Append(clines, l)
    /\ UNCHANGED <<connections, Shutdown, crashed, transport, closeSent, sent, writers,
                   raced, sessVars, peerVars, drainVars, sliceVars, cpc, cbind, cpos, cout,
                   cpeerClosed>>

CtlPeerClose ==
    /\ ~crashed
    /\ UNCHANGED bootVars
    /\ cpc \notin {"off", "closed"}
    /\ ~cpeerClosed
    /\ cpeerClosed' = TRUE
    /\ UNCHANGED <<connections, Shutdown, crashed, transport, closeSent, sent, writers,
                   raced, sessVars, peerVars, drainVars, sliceVars, cpc, cbind, clines,
                   cpos, cout>>

\* handleServiceConnection: reader.Scan() returns a line, strconv.Atoi
\* parses it; a line that does not parse is logged and skipped, for a number
\* n the drain is called (cm.CloseNConnections(n) in the handler; the
\* manager's drain of n connections is CloseFirstNConnections).
CtlScan ==
    /\ ~crashed
    /\ UNCHANGED bootVars
    /\ cbind = "tcp"
    /\ cpc = "scan"
    /\ cpos < Len(clines)
    /\ cpos' = cpos + 1
    /\ LET r == Atoi(clines[cpos + 1]) IN
          IF ~r.ok
          THEN /\ cpc' = AfterParseError
               /\ UNCHANGED <<crashed, npc, narg, nbefore, nsnap, ni>>
          ELSE /\ narg' = r.n
               /\ nbefore' = slice
               /\ IF r.n < 0
                  THEN /\ crashed' = TRUE
                       /\ UNCHANGED <<cpc, npc, nsnap, ni>>
                  ELSE /\ nsnap' = GetFirstNConnections(slice, r.n)
                       /\ ni' = 0
                       /\ npc' = "loop"
                       /\ cpc' = "drain"
                       /\ crashed' = crashed
    /\ UNCHANGED <<connections, Shutdown, transport, closeSent, sent, writers, raced,
                   sessVars, peerVars, drainVars, slice, ncalls, apc, arange, ai, rlock,
                   cbind, clines, cout, cpeerClosed>>

\* The drain has returned: fmt.Fprintln(conn, "Closing "+msg+" WS connections");
\* a failed write returns from the handler, which closes the connection.
CtlAck ==
    /\ ~crashed
    /\ UNCHANGED bootVars
    /\ cbind = "tcp"
    /\ cpc = "drain"
    /\ npc = "done"
    /\ npc' = "idle"
    /\ \E r \in AckOutcomes :
          IF r = "ok"
          THEN cout' = Append(cout, AckLine(clines[cpos])) /\ cpc' = "scan"
          ELSE cout' = cout /\ cpc' = "closed"
    /\ UNCHANGED <<connections, Shutdown, crashed, transport, closeSent, sent, writers,
                   raced, sessVars, peerVars, drainVars, slice, ncalls, narg, nbefore,
                   nsnap, ni, apc, arange, ai, rlock, cbind, clines, cpos, cpeerClosed>>

\* handleIPCConnection: reader.Scan() returns a line and the handler writes
\* "Closing "+msg+" WS connections\n" for it; no drain is called.
CtlIPC ==
    /\ ~crashed
    /\ UNCHANGED bootVars
    /\ cbind = "ipc"
    /\ cpc = "scan"
    /\ cpos < Len(clines)
    /\ cpos' = cpos + 1
    /\ \E r \in AckOutcomes :
          IF r = "ok"
          THEN cout' = Append(cout, AckLine(clines[cpos + 1])) /\ cpc' = "scan"
          ELSE cout' = cout /\ cpc' = "closed"
    /\ UNCHANGED <<connections, Shutdown, crashed, transport, closeSent, sent, writers,
                   raced, sessVars, peerVars, drainVars, sliceVars, cbind, clines,
                   cpeerClosed>>

\* reader.Scan() returns false at the end of the peer's stream: the handler
\* returns and its deferred conn.Close() runs.
CtlEOF ==
    /\ ~crashed
    /\ UNCHANGED bootVars
    /\ cpc = "scan"
    /\ cpos = Len(clines)
    /\ cpeerClosed
    /\ cpc' = "closed"
    /\ UNCHANGED <<connections, Shutdown, crashed, transport, closeSent, sent, writers,
                   raced, sessVars, peerVars, drainVars, sliceVars, cbind, clines, cpos,
                   cout, cpeerClosed>>

\* Slice-backed manager with one control peer, on either binding.
CtlInit == InitWith(Conns, 0, {}, {}, 0, FALSE)

CtlNext ==
    \/ \E c \in Conns : SliceAddConnection(c)
    \/ \E b \in {"tcp", "ipc"} : CtlAccept(b)
    \/ \E l \in CtlLines : CtlPeerSend(l)
    \/ CtlPeerClose
    \/ CtlScan
    \/ CloseFirstNIter
    \/ CtlAck
    \/ CtlIPC
    \/ CtlEOF

CtlSpec == CtlInit /\ [][CtlNext]_vars

\* ------------------------------------------------------------------ startup
\* main of cmd/ws_server: go tcp.HandleCleanUpTask(cm), then Start() of the
\* server.  Each net.Listen succeeds or fails, as the environment decides.

\* HandleCleanUpTask: if err != nil { slog.Error(...); return }: the
\* goroutine ends and the process goes on.
OnControlBindError == FALSE

\* Start: if err != nil { slog.Error(...); os.Exit(1) }
OnServingBindError == TRUE

BindControl(ok) ==
    /\ ~crashed /\ ~exited
    /\ listener[ControlPort] = "unbound"
    /\ listener' = [listener EXCEPT ![ControlPort] = IF ok THEN "bound" ELSE "failed"]
    /\ exited' = (~ok /\ OnControlBindError)
    /\ UNCHANGED <<connections, Shutdown, crashed, transport, closeSent, sent, writers,
                   raced, sessVars, peerVars, drainVars, sliceVars, ctlVars,
                   lifeVars, svcVars, lsnVars, nodeVars>>

BindServing(ok) ==
    /\ ~crashed /\ ~exited
    /\ listener[ServingPort] = "unbound"
    /\ listener' = [listener EXCEPT ![ServingPort] = IF ok THEN "bound" ELSE "failed"]
    /\ exited' = (~ok /\ OnServingBindError)
    /\ UNCHANGED <<connections, Shutdown, crashed, transport, closeSent, sent, writers,
                   raced, sessVars, peerVars, drainVars, sliceVars, ctlVars,
                   lifeVars, svcVars, lsnVars, nodeVars>>

\* What runs once a listener is bound: the serving listener accepts the
\* connections that are upgraded and registered, the control listener its
\* peer, whose handler runs. os.Exit ends all of it.
Serving == ~exited /\ listener[ServingPort] = "bound"

Controlling == ~exited /\ listener[ControlPort] = "bound"

StartInit == InitWith(Conns, 0, {}, {}, 0, FALSE)

StartNext ==
    \/ \E ok \in BOOLEAN : BindControl(ok)
    \/ \E ok \in BOOLEAN : BindServing(ok)
    \/ \E c \in Conns : Serving /\ SliceAddConnection(c)
    \/ \E b \in {"tcp"} : Controlling /\ CtlAccept(b)
    \/ \E l \in CtlLines : Controlling /\ CtlPeerSend(l)
    \/ Controlling /\ CtlPeerClose
    \/ Controlling /\ CtlScan
    \/ Controlling /\ CloseFirstNIter
    \/ Controlling /\ CtlAck
    \/ Controlling /\ CtlEOF

StartSpec == StartInit /\ [][StartNext]_vars

\* ------------------------------------------------------ termination signal
\* The two mains: cmd/ws_server/main.go, whose Start() serves on the main
\* goroutine while handleShutdown waits for the signal on its own, and the
\* single file go/main.go, which serves on a goroutine and waits for the
\* signal in main.  Both give signal.Notify a channel made with
\* make(chan os.Signal, 1) and register the drain with RegisterOnShutdown.
SignalBuffer == 1

Layouts == {"packages", "single"}

\* The process runs: main has started and has not ended.
Running == mpc # "off" /\ ~exited /\ ~crashed

\* main up to the point where it blocks: in Serve (packages) or in the
\* receive of line 92 (single).
MainStart(l) ==
    /\ mpc = "off" /\ ~exited /\ ~crashed
    /\ layout' = l
    /\ mpc' = IF l = "packages" THEN "serve" ELSE "recv"
    /\ hpc' = IF l = "packages" THEN "recv" ELSE "off"
    /\ UNCHANGED <<connections, Shutdown, crashed, transport, closeSent, sent, writers,
                   raced, sessVars, peerVars, drainVars, sliceVars, ctlVars, listener,
                   exited, sigq, sigs, inShutdown, svcVars, lsnVars, nodeVars>>

\* The operating system delivers SIGINT or SIGTERM: the runtime sends it to
\* the channel without blocking, so a signal that finds the buffer full is
\* dropped.
Signal ==
    /\ Running
    /\ sigs < MaxSignals
    /\ sigs' = sigs + 1
    /\ sigq' = Min(sigq + 1, SignalBuffer)
    /\ UNCHANGED <<connections, Shutdown, crashed, transport, closeSent, sent, writers,
                   raced, sessVars, peerVars, drainVars, sliceVars, ctlVars, listener,
                   exited, layout, mpc, hpc, inShutdown, svcVars, lsnVars, nodeVars>>

\* handleShutdown: <-sig
HandleShutdownRecv ==
    /\ Running
    /\ hpc = "recv"
    /\ sigq > 0
    /\ sigq' = sigq - 1
    /\ hpc' = "shutdown"
    /\ UNCHANGED <<connections, Shutdown, crashed, transport, closeSent, sent, writers,
                   raced, sessVars, peerVars, drainVars, sliceVars, ctlVars, listener,
                   exited, layout, sigs, mpc, inShutdown, svcVars, lsnVars, nodeVars>>

\* go/main.go line 92: <-shutdown
MainRecv ==
    /\ Running
    /\ mpc = "recv"
    /\ sigq > 0
    /\ sigq' = sigq - 1
    /\ mpc' = "log"
    /\ UNCHANGED <<connections, Shutdown, crashed, transport, closeSent, sent, writers,
                   raced, sessVars, peerVars, drainVars, sliceVars, ctlVars, listener,
                   exited, layout, sigs, hpc, inShutdown, svcVars, lsnVars, nodeVars>>

\* go/main.go line 93: slog.Info("Received shutdown signal", "signal", <-shutdown)
\* The argument is a second receive from the channel.
MainLog ==
    /\ Running
    /\ mpc = "log"
    /\ sigq > 0
    /\ sigq' = sigq - 1
    /\ mpc' = "shutdown"
    /\ UNCHANGED <<connections, Shutdown, crashed, transport, closeSent, sent, writers,
                   raced, sessVars, peerVars, drainVars, sliceVars, ctlVars, listener,
                   exited, layout, sigs, hpc, inShutdown, svcVars, lsnVars, nodeVars>>

\* http.Server.Shutdown is called: it closes the listeners, starts every
\* function registered with RegisterOnShutdown on a goroutine of its own
\* (here the one that calls CloseAllConnections) and goes on to wait for the
\* connections it tracks.
ShutdownBegin ==
    /\ Running
    /\ \/ layout = "packages" /\ hpc = "shutdown" /\ hpc' = "shutdown_w" /\ mpc' = mpc
       \/ layout = "single" /\ mpc = "shutdown" /\ mpc' = "shutdown_w" /\ hpc' = hpc
    /\ inShutdown' = TRUE
    /\ dpc' = [dpc EXCEPT ![1] = "idle"]
    /\ UNCHANGED <<connections, Shutdown, crashed, transport, closeSent, sent, writers,
                   raced, sessVars, peerVars, snapshot, cur, sliceVars, ctlVars, listener,
                   exited, layout, sigq, sigs, svcVars, lsnVars, nodeVars>>

\* Serve returns ErrServerClosed once Shutdown has closed the listener:
\* Start returns, and main with it.
ServeReturn ==
    /\ Running
    /\ layout = "packages" /\ mpc = "serve"
    /\ inShutdown
    /\ mpc' = "returned"
    /\ exited' = TRUE
    /\ UNCHANGED <<connections, Shutdown, crashed, transport, closeSent, sent, writers,
                   raced, sessVars, peerVars, drainVars, sliceVars, ctlVars, listener,
                   layout, sigq, sigs, hpc, inShutdown, svcVars, lsnVars, nodeVars>>

\* Shutdown returns: an upgraded connection is hijacked, and Shutdown neither
\* tracks hijacked connections nor waits for the functions it started.  In
\* go/main.go the rest of main follows and main returns.
ShutdownReturn ==
    /\ Running
    /\ \/ /\ layout = "packages" /\ hpc = "shutdown_w"
          /\ hpc' = "returned" /\ UNCHANGED <<mpc, exited>>
       \/ /\ layout = "single" /\ mpc = "shutdown_w"
          /\ mpc' = "returned" /\ exited' = TRUE /\ hpc' = hpc
    /\ UNCHANGED <<connections, Shutdown, crashed, transport, closeSent, sent, writers,
                   raced, sessVars, peerVars, drainVars, sliceVars, ctlVars, listener,
                   layout, sigq, sigs, inShutdown, svcVars, lsnVars, nodeVars>>

\* The steps of the goroutines that wait for the signal and shut down.
ShutdownStep ==
    \/ HandleShutdownRecv
    \/ MainRecv
    \/ MainLog
    \/ ShutdownBegin
    \/ ShutdownReturn
    \/ ServeReturn

LifeInit == InitWith({1}, MaxMsgs, {}, {"SLOW_REQUEST", "hello"}, 0, FALSE)

\* The listener accepts until Shutdown closes it; the handlers and the drain
\* run for as long as the process does.
LifeNext ==
    \/ \E l \in Layouts : MainStart(l)
    \/ Signal
    \/ HandleShutdownRecv
    \/ MainRecv
    \/ MainLog
    \/ ShutdownBegin
    \/ ShutdownReturn
    \/ ServeReturn
    \/ \E c \in Conns : Running /\ ~inShutdown /\ Upgrade(c)
    \/ \E c \in Conns : Running /\ SessionWriteBegin(c)
    \/ \E c \in Conns : Running /\ SessionWriteEnd(c)
    \/ \E c \in Conns : Running /\ LoopSelect(c)
    \/ \E c \in Conns : Running /\ ReadMessage(c)
    \/ \E c \in Conns : Running /\ ReadError(c)
    \/ \E c \in Conns : Running /\ Tick(c)
    \/ \E c \in Conns : Running /\ SlowInterrupted(c)
    \/ \E c \in Conns : Running /\ SlowTick(c)
    \/ \E c \in Conns : Running /\ DeferRemove(c)
    \/ \E c \in Conns : Running /\ DeferClose(c)
    \/ \E c \in Conns, m \in Payloads : Running /\ PeerSend(c, m)
    \/ \E c \in Conns : Running /\ PeerClose(c)
    \/ \E d \in Drains : Running /\ DrainSnapshot(d)
    \/ \E d \in Drains : Running /\ DrainSignal(d)
    \/ \E d \in Drains : Running /\ DrainWriteBegin(d)
    \/ \E d \in Drains : Running /\ DrainWriteEnd(d)
    \/ \E d \in Drains : Running /\ DrainClose(d)
    \/ \E d \in Drains : Running /\ DrainWait(d)
    \/ \E d \in Drains : Running /\ DrainPoll(d)
    \/ \E d \in Drains : Running /\ DrainTimeout(d)
    \/ \E d \in Drains : Running /\ DrainCancelled(d)

LifeSpec == LifeInit /\ [][LifeNext]_vars

\* The same with the goroutines scheduled.  Nothing is assumed of the
\* operating system: it may deliver no further signal.
LifeFairSpec == LifeInit /\ [][LifeNext]_vars /\ WF_vars(ShutdownStep)

\* --------------------------------------------------------- cleanup service
\* cmd/cleanup_svc holds two programs that listen on :55000 for the pre-stop
\* hook and then write drain requests to the server's control channel: one
\* that takes the first accepted connection as its trigger ("accept") and
\* one that waits on continueCh, which a handler closes when a peer sends
\* the trigger token ("gated").
Variants == {"accept", "gated"}

\* if message == "preStop-trigger\n"
TriggerToken == "preStop-trigger\n"

\* What a pre-stop peer may send; the empty string stands for its close
\* (conn.Read returns io.EOF, or n == 0).
PreStopMsgs == {TriggerToken, "preStop-trigger", "preStop-TRIGGER\n", "hello\n"}

PeerEOF == ""

\* conn.Read(sBuf) writes the bytes it read at the start of the buffer and
\* leaves the rest of it as it was.
ReadInto(buf, m) ==
    m \o (IF Len(buf) > Len(m) THEN SubSeq(buf, Len(m) + 1, Len(buf)) ELSE "")

\* string(sBuf[:n])
Message(buf, n) == SubSeq(buf, 1, n)

SvcRunning == spc \notin {"off", "ended"} /\ svcPanic = "none"

\* main up to the point where it blocks: in Accept ("accept") or in
\* <-continueCh ("gated", with listenForPreStop started).  A failed
\* net.Listen panics.
SvcStart(v, ok) ==
    /\ spc = "off" /\ svcPanic = "none"
    /\ variant' = v
    /\ IF ok
       THEN spc' = (IF v = "accept" THEN "accept" ELSE "gate") /\ svcPanic' = svcPanic
       ELSE spc' = spc /\ svcPanic' = "listen"
    /\ UNCHANGED <<serverVars, gate, kpc, kin, ksent, kmsg, klen, sBuf, requests>>

\* A peer connects to :55000.  "accept": preStopConn.Accept() returns it and
\* main goes on, or main is past its Accept and nobody takes the connection.
\* "gated": ln.Accept() returns it and go handleConnection(conn, sBuf,
\* continueCh) starts.
PreStopConnect(p) ==
    /\ SvcRunning
    /\ kpc[p] = "none"
    /\ IF variant = "accept"
       THEN /\ kpc' = [kpc EXCEPT ![p] = IF spc = "accept" THEN "accepted" ELSE "backlog"]
            /\ spc' = IF spc = "accept" THEN "dial" ELSE spc
       ELSE /\ kpc' = [kpc EXCEPT ![p] = "read"]
            /\ spc' = spc
    /\ UNCHANGED <<serverVars, variant, gate, kin, ksent, kmsg, klen, sBuf, requests, svcPanic>>

\* "accept": preStopConn.Accept() returns an error; the call's results are
\* discarded and main goes on.
AcceptError ==
    /\ SvcRunning
    /\ variant = "accept" /\ spc = "accept"
    /\ spc' = "dial"
    /\ UNCHANGED <<serverVars, variant, gate, kpc, kin, ksent, kmsg, klen, sBuf, requests,
                   svcPanic>>

\* A connected peer sends a message, or closes.
PreStopSend(p, m) ==
    /\ SvcRunning
    /\ variant = "gated"
    /\ kpc[p] \in {"read", "copy"}
    /\ ksent[p] < MaxPeerMsgs
    /\ kin' = [kin EXCEPT ![p] = Append(@, m)]
    /\ ksent' = [ksent EXCEPT ![p] = IF m = PeerEOF THEN MaxPeerMsgs ELSE @ + 1]
    /\ UNCHANGED <<serverVars, variant, gate, spc, kpc, kmsg, klen, sBuf, requests, svcPanic>>

\* handleConnection: n, err := conn.Read(sBuf); an error or n == 0 returns,
\* and the deferred closeOrLog closes the connection.
HandlerRead(p) ==
    /\ SvcRunning
    /\ kpc[p] = "read"
    /\ kin[p] # <<>>
    /\ kin' = [kin EXCEPT ![p] = Tail(@)]
    /\ LET m == Head(kin[p]) IN
          IF m = PeerEOF
          THEN /\ kpc' = [kpc EXCEPT ![p] = "closed"]
               /\ UNCHANGED <<kmsg, klen, sBuf>>
          ELSE /\ kpc' = [kpc EXCEPT ![p] = "copy"]
               /\ kmsg' = [kmsg EXCEPT ![p] = m]
               /\ klen' = [klen EXCEPT ![p] = Len(m)]
               /\ sBuf' = ReadInto(sBuf, m)
    /\ UNCHANGED <<serverVars, variant, gate, spc, ksent, requests, svcPanic>>

\* handleConnection: message := string(sBuf[:n]); if message ==
\* "preStop-trigger\n" { close(continueCh); return }.  Closing a closed
\* channel panics.
HandlerCheck(p) ==
    /\ SvcRunning
    /\ kpc[p] = "copy"
    /\ IF Message(sBuf, klen[p]) = TriggerToken
       THEN /\ kpc' = [kpc EXCEPT ![p] = "closed"]
            /\ gate' = TRUE
            /\ svcPanic' = IF gate THEN "close of closed channel" ELSE svcPanic
       ELSE /\ kpc' = [kpc EXCEPT ![p] = "read"]
            /\ UNCHANGED <<gate, svcPanic>>
    /\ UNCHANGED <<serverVars, variant, spc, kin, ksent, kmsg, klen, sBuf, requests>>

\* main ("gated"): <-continueCh
SvcGate ==
    /\ SvcRunning
    /\ spc = "gate"
    /\ gate
    /\ spc' = "dial"
    /\ UNCHANGED <<serverVars, variant, gate, kpc, kin, ksent, kmsg, klen, sBuf, requests,
                   svcPanic>>

\* net.Dial("tcp", wsServer); an error panics.
SvcDial(ok) ==
    /\ SvcRunning
    /\ spc = "dial"
    /\ IF ok
       THEN spc' = "request" /\ svcPanic' = svcPanic
       ELSE spc' = spc /\ svcPanic' = "dial"
    /\ UNCHANGED <<serverVars, variant, gate, kpc, kin, ksent, kmsg, klen, sBuf, requests>>

\* fmt.Fprintln(conn, "11"): a failed write returns from main.
SvcRequest(ok) ==
    /\ SvcRunning
    /\ spc = "request"
    /\ requests < MaxRequests
    /\ IF ok
       THEN spc' = "scan" /\ requests' = requests + 1
       ELSE spc' = "ended" /\ requests' = requests
    /\ UNCHANGED <<serverVars, variant, gate, kpc, kin, ksent, kmsg, klen, sBuf, svcPanic>>

\* scanner.Scan() returns, then time.Sleep(10 * time.Second).
SvcScan ==
    /\ SvcRunning
    /\ spc = "scan"
    /\ spc' = "request"
    /\ UNCHANGED <<serverVars, variant, gate, kpc, kin, ksent, kmsg, klen, sBuf, requests,
                   svcPanic>>

SvcInit == InitWith({}, 0, {}, {}, 0, FALSE)

SvcNext ==
    \/ \E v \in Variants, ok \in BOOLEAN : SvcStart(v, ok)
    \/ \E p \in PreStopPeers : PreStopConnect(p)
    \/ AcceptError
    \/ \E p \in PreStopPeers, m \in PreStopMsgs \cup {PeerEOF} : PreStopSend(p, m)
    \/ \E p \in PreStopPeers : HandlerRead(p)
    \/ \E p \in PreStopPeers : HandlerCheck(p)
    \/ SvcGate
    \/ \E ok \in BOOLEAN : SvcDial(ok)
    \/ \E ok \in BOOLEAN : SvcRequest(ok)
    \/ SvcScan

SvcSpec == SvcInit /\ [][SvcNext]_vars

\* -------------------------------------------------------- control listener
\* HandleCleanUpTask with several peers: the accept loop starts
\* handleServiceConnection on a goroutine of its own for every connection
\* it accepts, and each handler has its own scanner, msg and drain.
ListenLines == {"abc", "0", "1"}

\* A peer connects to :9999: the connection waits for Accept.
CtlPeerConnect(q) ==
    /\ ~crashed /\ Controlling
    /\ qconn[q] = "none"
    /\ qconn' = [qconn EXCEPT ![q] = "backlog"]
    /\ UNCHANGED <<connections, Shutdown, crashed, transport, closeSent, sent, writers,
                   raced, sessVars, peerVars, drainVars, sliceVars, ctlVars, listener,
                   exited, lifeVars, svcVars, nodeVars, qin, qsent, qclosed, qpc, qmsg, qsnap, qi, qout>>

\* A connected peer writes a line; what it writes before it is accepted
\* waits in the connection.
CtlPeerWrite(q, l) ==
    /\ ~crashed /\ Controlling
    /\ qconn[q] \in {"backlog", "served"}
    /\ ~qclosed[q]
    /\ qsent[q] < MaxLines
    /\ qin' = [qin EXCEPT ![q] = Append(@, l)]
    /\ qsent' = [qsent EXCEPT ![q] = @ + 1]
    /\ UNCHANGED <<connections, Shutdown, crashed, transport, closeSent, sent, writers,
                   raced, sessVars, peerVars, drainVars, sliceVars, ctlVars, listener,
                   exited, lifeVars, svcVars, nodeVars, qconn, qclosed, qpc, qmsg, qsnap, qi, qout>>

\* A connected peer closes its end.
CtlPeerHangUp(q) ==
    /\ ~crashed /\ Controlling
    /\ qconn[q] \in {"backlog", "served"}
    /\ ~qclosed[q]
    /\ qclosed' = [qclosed EXCEPT ![q] = TRUE]
    /\ UNCHANGED <<connections, Shutdown, crashed, transport, closeSent, sent, writers,
                   raced, sessVars, peerVars, drainVars, sliceVars, ctlVars, listener,
                   exited, lifeVars, svcVars, nodeVars, qconn, qin, qsent, qpc, qmsg, qsnap, qi, qout>>

\* Mutant of ListenAccept: the loop calls the handler itself and accepts
\* again when the handler has returned.
ListenAccept_Inline(q) ==
    /\ ~crashed /\ Controlling
    /\ qconn[q] = "backlog"
    /\ \A r \in CtlPeers : qpc[r] \in {"off", "returned"}
    /\ qconn' = [qconn EXCEPT ![q] = "served"]
    /\ qpc' = [qpc EXCEPT ![q] = "scan"]
    /\ UNCHANGED <<connections, Shutdown, crashed, transport, closeSent, sent, writers,
                   raced, sessVars, peerVars, drainVars, sliceVars, ctlVars, listener,
                   exited, lifeVars, svcVars, nodeVars, qin, qsent, qclosed, qmsg, qsnap, qi, qout>>

\* conn, err := ln.Accept(); go handleServiceConnection(conn, cm)
ListenAccept(q) ==
    /\ ~crashed /\ Controlling
    /\ qconn[q] = "backlog"
    /\ qconn' = [qconn EXCEPT ![q] = "served"]
    /\ qpc' = [qpc EXCEPT ![q] = "scan"]
    /\ UNCHANGED <<connections, Shutdown, crashed, transport, closeSent, sent, writers,
                   raced, sessVars, peerVars, drainVars, sliceVars, ctlVars, listener,
                   exited, lifeVars, svcVars, nodeVars, qin, qsent, qclosed, qmsg, qsnap, qi, qout>>

\* reader.Scan() returns a line and strconv.Atoi parses it; a number starts
\* the drain with its snapshot (make panics on a negative one).  At the
\* end of the stream Scan returns false and the handler returns.
ServiceScan(q) ==
    /\ ~crashed /\ Controlling
    /\ qpc[q] = "scan"
    /\ IF qin[q] # <<>>
       THEN LET l == Head(qin[q])
                r == Atoi(l) IN
            /\ qin' = [qin EXCEPT ![q] = Tail(@)]
            /\ qmsg' = [qmsg EXCEPT ![q] = l]
            /\ IF ~r.ok
               THEN /\ qpc' = [qpc EXCEPT ![q] = AfterParseError]
                    /\ UNCHANGED <<crashed, qsnap, qi, qconn>>
               ELSE IF r.n < 0
               THEN /\ crashed' = TRUE
                    /\ UNCHANGED <<qpc, qsnap, qi, qconn>>
               ELSE /\ qsnap' = [qsnap EXCEPT ![q] = GetFirstNConnections(slice, r.n)]
                    /\ qi' = [qi EXCEPT ![q] = 0]
                    /\ qpc' = [qpc EXCEPT ![q] = "drain"]
                    /\ UNCHANGED <<crashed, qconn>>
       ELSE /\ qclosed[q]
            /\ qpc' = [qpc EXCEPT ![q] = "returned"]
            /\ qconn' = [qconn EXCEPT ![q] = "closed"]
            /\ UNCHANGED <<crashed, qin, qmsg, qsnap, qi>>
    /\ UNCHANGED <<connections, Shutdown, transport, closeSent, sent, writers, raced,
                   sessVars, peerVars, drainVars, sliceVars, ctlVars, listener, exited,
                   lifeVars, svcVars, nodeVars, qsent, qclosed, qout>>

\* One iteration of the drain's loop, as in CloseFirstNIter, or its end.
ServiceDrain(q) ==
    /\ ~crashed /\ Controlling
    /\ qpc[q] = "drain"
    /\ IF qi[q] >= Len(qsnap[q])
       THEN /\ qpc' = [qpc EXCEPT ![q] = "ack"]
            /\ UNCHANGED <<crashed, transport, inbox, budget, closeSent, sent, slice, qi>>
       ELSE LET conn == qsnap[q][qi[q] + 1] IN
            IF conn = Nil
            THEN /\ crashed' = TRUE
                 /\ UNCHANGED <<qpc, transport, inbox, budget, closeSent, sent, slice, qi>>
            ELSE /\ \E r \in WriteOutcomes(conn) :
                       /\ sent' = IF r = "ok" THEN [sent EXCEPT ![conn] = Append(@, CloseFrame)]
                                  ELSE sent
                       /\ closeSent' = IF r = "ok" THEN [closeSent EXCEPT ![conn] = TRUE]
                                       ELSE closeSent
                 /\ CloseTransport(conn)
                 /\ IF qi[q] + 1 > Len(slice)
                    THEN crashed' = TRUE /\ slice' = slice
                    ELSE crashed' = crashed /\ slice' = SliceDelete(slice, qi[q])
                 /\ qi' = [qi EXCEPT ![q] = @ + 1]
                 /\ qpc' = qpc
    /\ UNCHANGED <<connections, Shutdown, writers, raced, sessVars, peerClosed, menu,
                   drainVars, ncalls, npc, narg, nbefore, nsnap, ni, apc, arange, ai, rlock,
                   ctlVars, listener, exited, lifeVars, svcVars, nodeVars, qconn, qin, qsent, qclosed,
                   qmsg, qsnap, qout>>

\* fmt.Fprintln(conn, "Closing "+msg+" WS connections"): a failed write
\* returns from the handler.
ServiceAck(q) ==
    /\ ~crashed /\ Controlling
    /\ qpc[q] = "ack"
    /\ \E r \in (IF qclosed[q] THEN {"ok", "err"} ELSE {"ok"}) :
          IF r = "ok"
          THEN /\ qout' = [qout EXCEPT ![q] = Append(@, AckLine(qmsg[q]))]
               /\ qpc' = [qpc EXCEPT ![q] = "scan"]
               /\ qconn' = qconn
          ELSE /\ qout' = qout
               /\ qpc' = [qpc EXCEPT ![q] = "returned"]
               /\ qconn' = [qconn EXCEPT ![q] = "closed"]
    /\ UNCHANGED <<connections, Shutdown, crashed, transport, closeSent, sent, writers,
                   raced, sessVars, peerVars, drainVars, sliceVars, ctlVars, listener,
                   exited, lifeVars, svcVars, nodeVars, qin, qsent, qclosed, qmsg, qsnap, qi>>

\* The steps of one peer's handler.
ServiceStep(q) ==
    \/ ServiceScan(q)
    \/ ServiceDrain(q)
    \/ ServiceAck(q)

ListenInit == InitWith({1}, 0, {}, {}, 0, FALSE)

ListenNext ==
    \/ \E ok \in BOOLEAN : BindControl(ok)
    \/ \E c \in Conns : SliceAddConnection(c)
    \/ \E q \in CtlPeers : CtlPeerConnect(q)
    \/ \E q \in CtlPeers, l \in ListenLines : CtlPeerWrite(q, l)
    \/ \E q \in CtlPeers : CtlPeerHangUp(q)
    \/ \E q \in CtlPeers : ListenAccept(q)
    \/ \E q \in CtlPeers : ServiceScan(q)
    \/ \E q \in CtlPeers : ServiceDrain(q)
    \/ \E q \in CtlPeers : ServiceAck(q)

\* The accept loop and the handlers are scheduled; nothing is assumed of
\* the peers, which may stay connected and silent for ever.
ListenSpec ==
    /\ ListenInit
    /\ [][ListenNext]_vars
    /\ \A q \in CtlPeers : WF_vars(ListenAccept(q)) /\ WF_vars(ServiceStep(q))

\* -------------------------------------------------------------- test client
\* nodejs/ws.mjs run with -r: connectToApp(url, retryCount = 0, maxRetries =
\* 5, clientId) makes a socket and registers its handlers; one client.
MaxRetries == 5

\* The close codes on which the close handler retries, and the codes a
\* socket that was open can close with.
RetryCodes == {1006, 1001, 1011, 1012, 1013, 1014}

CloseCodes == {1000, 1001, 1006}

\* const ws = new WebSocket(url), with connectionEstablished = false
NewSocket(rc) == [rc |-> rc, st |-> "connecting", est |-> FALSE]

\* setTimeout(() => connectToApp(url, retryCount + 1, ...), delay)
SetRetry(ts, rc) == Append(ts, rc + 1)

\* main: connectToApp(url, 0, 5, i)
ClientStart ==
    /\ attempts = 0
    /\ socks' = <<NewSocket(0)>>
    /\ attempts' = 1
    /\ UNCHANGED <<nonNodeVars, timers>>

\* ws.on('open'): connectionEstablished = true
SockOpen(i) ==
    /\ socks[i].st = "connecting"
    /\ socks' = [socks EXCEPT ![i].st = "open", ![i].est = TRUE]
    /\ UNCHANGED <<nonNodeVars, timers, attempts>>

\* ws.on('error'): a socket that was not established leaves the retry to
\* its close handler; one that was sets a reconnect when retryCount <
\* maxRetries.  The library emits 'close' after 'error'.
SockError(i) ==
    /\ socks[i].st \in {"connecting", "open"}
    /\ socks' = [socks EXCEPT ![i].st = "errored"]
    /\ timers' = IF socks[i].est /\ socks[i].rc < MaxRetries
                 THEN SetRetry(timers, socks[i].rc) ELSE timers
    /\ UNCHANGED <<nonNodeVars, attempts>>

\* ws.on('close'): shouldRetry = retryCount < maxRetries &&
\* (!connectionEstablished || code is one of the retry codes).  A socket
\* that emitted 'error' closes with 1006.
SockClose(i, code) ==
    /\ \/ socks[i].st = "open"
       \/ socks[i].st = "errored" /\ code = 1006
    /\ socks' = [socks EXCEPT ![i].st = "closed"]
    /\ timers' = IF socks[i].rc < MaxRetries /\ (~socks[i].est \/ code \in RetryCodes)
                 THEN SetRetry(timers, socks[i].rc) ELSE timers
    /\ UNCHANGED <<nonNodeVars, attempts>>

\* A timer fires: connectToApp(url, retryCount + 1, maxRetries, clientId)
TimerFire(k) ==
    /\ k \in 1..Len(timers)
    /\ Len(socks) < MaxSockets
    /\ socks' = Append(socks, NewSocket(timers[k]))
    /\ timers' = [j \in 1..(Len(timers) - 1) |-> IF j < k THEN timers[j] ELSE timers[j + 1]]
    /\ attempts' = attempts + 1
    /\ UNCHANGED nonNodeVars

NodeInit == InitWith({}, 0, {}, {}, 0, FALSE)

NodeNext ==
    \/ ClientStart
    \/ \E i \in 1..Len(socks) : SockOpen(i)
    \/ \E i \in 1..Len(socks) : SockError(i)
    \/ \E i \in 1..Len(socks), code \in CloseCodes : SockClose(i, code)
    \/ \E k \in 1..MaxSockets : TimerFire(k)

NodeSpec == NodeInit /\ [][NodeNext]_vars

\* ------------------------------------------------------------------ claims
\* The slow-work token of the wire protocol: SLOW_REQUEST, or a payload
\* that starts with SLOW_PING.
IsSlowToken(m) ==
    \/ m = "SLOW_REQUEST"
    \/ Len(m) >= Len("SLOW_PING") /\ SubSeq(m, 1, Len("SLOW_PING")) = "SLOW_PING"

Last(s) == s[Len(s)]

\* C1: a partial drain CloseFirstNConnections(n) on a registry that holds k
\* connections, 0 < n <= k, does not crash, closes the transports of exactly
\* the n oldest and removes exactly them; the younger ones stay registered
\* with open transports.
C1_PartialDrainOldestFirst ==
    [][LET before == Real(nbefore)
           k == Len(before)
           oldest == {before[i] : i \in 1..Min(narg, k)}
       IN (npc = "loop" /\ 0 < narg /\ narg <= k /\ CloseFirstNIter) =>
             /\ ~crashed'
             /\ npc' = "done" =>
                   /\ \A c \in Range(before) : transport'[c] = "closed" <=> c \in oldest
                   /\ \A c \in Range(before) : c \in Range(slice') <=> c \notin oldest
                   /\ Len(Real(slice')) >= k - narg]_vars

\* C2: when the wait loop of CloseAllConnections returns through its
\* "all connections closed" path, the registry is empty at that check.
C2_AllClosedMeansEmpty ==
    [][\A d \in Drains :
          (dpc[d] = "wait" /\ dpc'[d] = "all_closed") =>
              connections = {} /\ connections' = {}]_vars

C2_Witness ==
    /\ dpc[1] = "all_closed"
    /\ \E c \in Conns : closeSent[c] /\ pc[c] = "closed"

\* C3: a second shutdown broadcast (close(cm.Shutdown) of a second
\* CloseAllConnections call on the same manager) is a no-op: it does not
\* crash the process and the signal stays raised.
C3_SecondShutdownIsNoOp ==
    [][\A d \in Drains :
          (Shutdown /\ dpc[d] = "signal" /\ DrainSignal(d)) =>
              ~crashed' /\ Shutdown']_vars

\* C4: an Idle session that reads a payload M which is not a slow token
\* goes on to echo it, and its echo write on a healthy connection appends
\* exactly "Echo: " + M and returns to the message loop.
C4_EchoesEveryRegularPayload ==
    [][\A c \in Conns :
          /\ (/\ pc[c] = "read" /\ pc'[c] # "read"
              /\ inbox[c] # <<>>
              /\ ~IsSlowToken(Head(inbox[c]).payload))
             => (pc'[c] = "echo" /\ message'[c] = Head(inbox[c]))
          /\ (/\ pc[c] = "echo_w" /\ pc'[c] # "echo_w"
              /\ transport[c] = "open" /\ ~closeSent[c] /\ ~peerClosed[c] /\ ~raced[c])
             => (/\ sent'[c] = Append(sent[c], "Echo: " \o message[c].payload)
                 /\ pc'[c] = "loop")]_vars

\* C5: a session in slow work once the ShutdownSignal is raised leaves the
\* slow work only by being interrupted (no SLOW_COMPLETE), the elapsed time
\* it reports is within one tick of the ticks that have fired, and, its
\* peer still being there, its SLOW_INTERRUPTED message is written,
\* exactly once, before it returns.
C5_InterruptedExactlyOnce ==
    [][\A c \in Conns :
          /\ (Shutdown /\ pc[c] = "slow" /\ pc'[c] # "slow") =>
                /\ pc'[c] = "interrupt"
                /\ (elapsed[c] + (IF tickPending[c] THEN 1 ELSE 0)) - elapsed[c] <= 1
          /\ (pc[c] = "interrupt_w" /\ pc'[c] # "interrupt_w" /\ ~peerClosed[c]) =>
                /\ sent'[c] = Append(sent[c], InterruptedResponse(elapsed[c]))
                /\ pc'[c] = "defer_remove"]_vars

\* C6: with no shutdown and a healthy transport, a session that started
\* slow work stays in it until the ceiling is reached, then writes exactly
\* one SLOW_COMPLETE and is back in the message loop; and it does get
\* there, to wait in its read for the next message.
C6_SlowCompletesAtCeiling ==
    /\ [][\A c \in Conns :
             /\ (pc[c] = "slow" /\ pc'[c] # "slow") =>
                   (elapsed'[c] = CeilingTicks /\ pc'[c] = "complete")
             /\ (pc[c] = "slow" /\ pc'[c] = "slow") => sent'[c] = sent[c]
             /\ (pc[c] = "complete_w" /\ pc'[c] # "complete_w") =>
                   (sent'[c] = Append(sent[c], CompleteResponse) /\ pc'[c] = "loop")]_vars
    /\ \A c \in Conns :
          (pc[c] = "slow") ~> (pc[c] = "read" /\ Last(sent[c]) = CompleteResponse)

C6_Witness ==
    sent[1] = <<WelcomeMessage, CompleteResponse, EchoResponse("hello world")>>

\* C7: CloseFirstNConnections(n) with n >= count() does not crash, and when
\* it has returned every connection that was registered has its transport
\* closed and the registry holds none of them, as after CloseAllConnections.
C7_DrainAtLeastCountDrainsAll ==
    [][(npc = "loop" /\ narg >= GetConnectionsCount(nbefore) /\ CloseFirstNIter) =>
          /\ ~crashed'
          /\ npc' = "done" =>
                /\ \A c \in Range(Real(nbefore)) : transport'[c] = "closed"
                /\ \A c \in Range(Real(nbefore)) : c \notin Range(slice')]_vars

\* C8: a session that has terminated, by whatever exit path, is no longer
\* in the registry.
C8_DeregisteredOnEveryExit ==
    \A c \in Conns : pc[c] \in {"defer_close", "closed"} => c \notin connections

C8_Witness ==
    /\ pc[1] = "closed" /\ sent[1] = <<WelcomeMessage, InterruptedResponse(1)>>
    /\ pc[2] = "closed" /\ peerClosed[2] /\ ~closeSent[2] /\ sent[2] = <<>>
    /\ connections = {}

\* C9: the coordinator's close-frame write and a write of the owning
\* session are never in progress on the same connection at the same time.
C9_SingleWriter ==
    \A c \in Conns : ~({"session", "coord"} \subseteq writers[c])

\* C10: once the ShutdownSignal is raised a session suspended in its read
\* processes no message that arrived after the signal: it neither echoes it
\* nor starts slow work for it.
C10_NoMessageProcessedAfterSignal ==
    \A c \in Conns :
        pc[c] \in {"echo", "echo_w", "slow", "interrupt", "interrupt_w",
                   "complete", "complete_w"} => ~message[c].late

\* C11: a connection that both the coordinator's drain and its own session's
\* exit path act on is released once: its transport goes from open to closed
\* and never back, the Close that comes second changes nothing, its registry
\* entry is removed once, by its session, and never comes back, and a
\* session that has ended leaves its connection closed and unregistered.
C11_NoDoubleRelease ==
    [][\A c \in Conns :
          /\ transport[c] = "closed" => transport'[c] = "closed"
          /\ (/\ transport[c] = "closed"
              /\ \/ DeferClose(c)
                 \/ \E d \in Drains : cur[d] = c /\ DrainClose(d))
             => UNCHANGED <<transport, inbox, budget, connections, sent, closeSent>>
          /\ (c \in connections /\ c \notin connections') =>
                (pc[c] = "defer_remove" /\ pc'[c] = "defer_close")
          /\ (c \notin connections /\ c \in connections') => pc[c] = "init"
          /\ pc'[c] = "closed" => (transport'[c] = "closed" /\ c \notin connections')]_vars

\* The coordinator has written its close frame to connection 1 and closed
\* it, and the session of connection 1 has run its deferred cleanup.
C11_Witness ==
    /\ pc[1] = "closed" /\ closeSent[1] /\ transport[1] = "closed"
    /\ dpc[1] \in {"next", "wait"} /\ cur[1] = 0 /\ 1 \notin snapshot[1]
    /\ 1 \notin connections

\* C12: whatever add and remove calls are made, the same connection added
\* again included, neither registry holds two entries with the same
\* connection identity.
C12_NoDuplicateIdentity ==
    \A i, j \in 1..Len(slice) :
        (i # j /\ slice[i] # Nil) => slice[i] # slice[j]

\* C13: a connection is in the registry exactly when it has a running
\* session (one that has not yet run its deferred deregistration) whose
\* transport has not been closed; no registered connection has a transport
\* a drain has already closed.
C13_MembershipIsLiveSessions ==
    \A c \in Conns :
        c \in connections <=>
            (pc[c] \notin {"off", "init", "defer_close", "closed"} /\ transport[c] = "open")

\* C14: every call of CloseAllConnections eventually returns, through the
\* empty registry, the timeout or the caller's context, on the map-keyed
\* and on the slice-backed manager; no step of the call panics or blocks on
\* the registry lock.
C14_CloseAllReturns ==
    /\ [][SliceCloseAllStep => (~crashed' /\ apc' # "deadlock")]_vars
    /\ \A d \in Drains :
          (dpc[d] = "signal") ~> (dpc[d] \in {"all_closed", "timeout", "cancelled"})
    /\ (apc = "loop") ~> (apc \in {"all_closed", "timeout"})

\* C15: no call makes a connection write or a transport close while it holds
\* the registry lock, and none asks for the write lock (RemoveConnection)
\* while it holds the read lock.
C15_NoTransportCallUnderLock ==
    [][/\ (apc = "loop" /\ ai < Len(arange) /\ SliceCloseAllStep) =>
             ("CloseAllConnections" \notin rlock /\ apc' # "deadlock")
       /\ (npc = "loop" /\ ni < Len(nsnap) /\ CloseFirstNIter) =>
             "CloseFirstNConnections" \notin rlock]_vars

\* C16: in a drain, whatever happens to the close-frame write or the Close
\* of one entry of the snapshot, the coordinator goes on: after the write it
\* still closes that connection, and after an entry it takes the next one,
\* until the snapshot is exhausted; no failure on one entry ends the batch.
C16_DrainFailureIsolated ==
    [][/\ \A d \in Drains :
             /\ (dpc[d] = "write_w" /\ DrainWriteEnd(d)) => (~crashed' /\ dpc'[d] = "close")
             /\ (dpc[d] = "close" /\ DrainClose(d)) => (~crashed' /\ dpc'[d] = "next")
             /\ (dpc[d] = "next" /\ dpc'[d] = "wait") => snapshot[d] = {}
       /\ (npc = "loop" /\ ni < Len(nsnap) /\ CloseFirstNIter) =>
             (~crashed' /\ npc' = "loop" /\ ni' = ni + 1)
       /\ (npc = "loop" /\ npc' = "done") => ni = Len(nsnap)]_vars

\* C17: a partial drain CloseFirstNConnections(n), n > 0, leaves the
\* Shutdown signal as it was, and the process keeps serving: the sessions
\* of the connections it did not select go on running.
C17_PartialDrainLeavesSignal ==
    [][(npc = "loop" /\ narg > 0 /\ CloseFirstNIter) =>
          /\ Shutdown' = Shutdown
          /\ ~crashed'
          /\ \A c \in Conns : c \notin Range(nsnap) =>
                (pc'[c] = pc[c] /\ transport'[c] = transport[c])]_vars

C19_AckOnlyAfterDrain ==
    [][cout' # cout =>
          /\ cpc = "drain" /\ npc = "done"
          /\ Atoi(clines[cpos']).ok /\ narg = Atoi(clines[cpos']).n
          /\ cout' = Append(cout, "Closing " \o ToString(narg) \o " WS connections")]_vars

\* C20: a listener that cannot be bound is fatal: the process does not go
\* on with one listener bound and the other absent, nor with the serving
\* listener absent.
C20_BindFailureFatal ==
    ~exited =>
        /\ ~\E p, q \in Ports : listener[p] = "failed" /\ listener[q] = "bound"
        /\ listener[ServingPort] # "failed"

\* C21: the Shutdown signal is one-way: it starts un-raised, only
\* CloseAllConnections raises it, once raised it stays raised whatever
\* happens next, and the check of it at the top of a session's message loop
\* can always be taken at once.
C21_ShutdownOneWay ==
    /\ ~Shutdown
    /\ [][/\ Shutdown => Shutdown'
          /\ (~Shutdown /\ Shutdown') =>
                ((\E d \in Drains : dpc[d] = "signal" /\ dpc'[d] = "next")
                 \/ (apc = "idle" /\ apc' = "loop"))]_vars
    /\ [](\A c \in Conns : (pc[c] = "loop" /\ ~crashed) => ENABLED LoopSelect(c))

\* The signal was raised, the drain has run to its timeout and the session
\* has seen the signal and ended: the signal is still raised.
C21_Witness ==
    /\ Shutdown /\ dpc[1] = "timeout" /\ dpc[2] = "idle"
    /\ pc[1] = "closed" /\ ~closeSent[1] /\ ~peerClosed[1]

\* C22: once CloseAllConnections has raised the signal, and the process
\* keeps running, every session ends and deregisters, whether or not its
\* connection was in the drain's snapshot and whatever its peer does or
\* does not do: the registry becomes empty.
C22_SignalEmptiesRegistry ==
    (Shutdown /\ ~crashed) ~> (connections = {} \/ crashed)


\* C23: after a termination signal the process does not end before the
\* drain that the on-shutdown hook started has returned.
C23_NoExitDuringDrain ==
    exited => \A d \in Drains : dpc[d] \in {"off", "all_closed", "timeout", "cancelled"}

\* C24: in go/main.go, once one signal has been delivered, and the process
\* keeps running, server.Shutdown is eventually called; no second signal is
\* needed.
C24_OneSignalIsEnough ==
    (layout = "single" /\ sigs >= 1) ~> (inShutdown \/ crashed)


\* C25: in the slice-backed registry the count is the number of connections
\* added and not yet removed: a new manager counts 0 and holds no
\* placeholder, an add raises the count by one and a removal lowers it by
\* one.
C25_CountIsRegistered ==
    /\ [](GetConnectionsCount(slice) = Len(Real(slice)))
    /\ [][/\ (\E c \in Conns : slice' = SliceAdd(slice, c)) =>
                GetConnectionsCount(slice') = GetConnectionsCount(slice) + 1
          /\ (\E i \in 0..(Len(slice) - 1) : slice' = SliceDelete(slice, i)) =>
                GetConnectionsCount(slice') = GetConnectionsCount(slice) - 1]_vars

\* C26: GetFirstNConnections(n) returns exactly min(n, count) connections,
\* all of them registered, oldest first, none of them nil, and leaves the
\* registry as it was.
C26_SnapshotOldest ==
    /\ [](npc = "loop" =>
             /\ Len(nsnap) = Min(narg, GetConnectionsCount(nbefore))
             /\ \A i \in 1..Len(nsnap) : nsnap[i] # Nil
             /\ nsnap = SubSeq(Real(nbefore), 1, Len(nsnap)))
    /\ [][(npc # "loop" /\ npc' = "loop") => slice' = slice]_vars


\* C29: whatever integer the control channel receives as a drain count, 0
\* and negative ones included, the handler does not crash and closes at
\* most max(n, 0) connections, none at all for n <= 0.
C29_AnyCountIsHandled ==
    (cbind = "tcp" /\ cpos > 0 /\ Atoi(clines[cpos]).ok) =>
        LET n == Atoi(clines[cpos]).n IN
          /\ ~crashed
          /\ ni <= (IF n > 0 THEN n ELSE 0)
          /\ n <= 0 => (cpc = "drain" => slice = nbefore)


\* C30: in every session state, slow work included, once the peer has
\* closed the connection or the transport is closed, and the process keeps
\* running, the session ends and its connection is deregistered; it does
\* not stay registered for ever.
C30_PeerCloseEndsSession ==
    \A c \in Conns :
        ((peerClosed[c] \/ transport[c] = "closed") /\ c \in connections)
            ~> ((pc[c] = "closed" /\ c \notin connections) \/ crashed)

\* The peer has closed while its slow request is being worked on, one tick
\* before the ceiling, with no shutdown under way.
C30_Witness ==
    /\ peerClosed[1] /\ ~Shutdown /\ ~crashed
    /\ pc[1] = "slow" /\ elapsed[1] = CeilingTicks - 1 /\ tickPending[1]
    /\ 1 \in connections


\* C27: the continue gate is opened at most once: a trigger token that
\* arrives when the gate is open, or while another is being handled, does
\* nothing, and the service does not crash.
C27_GateOpenedOnce ==
    svcPanic # "close of closed channel"

\* C28: no drain request is written before a pre-stop trigger was received;
\* in the gated variant a message that is not the token leaves the gate as
\* it is and the peer's connection open.
C28_NoRequestBeforeTrigger ==
    /\ [](requests > 0 =>
             IF variant = "accept" THEN \E p \in PreStopPeers : kpc[p] = "accepted"
             ELSE \E p \in PreStopPeers : kmsg[p] = TriggerToken)
    /\ [][\A p \in PreStopPeers :
             (kpc[p] = "copy" /\ kpc'[p] # "copy" /\ kmsg[p] # TriggerToken) =>
                 (gate' = gate /\ kpc'[p] = "read")]_vars


\* The session state of the specification, read off the handler's position:
\* Closed once the handler has returned or the transport is closed,
\* ProcessingSlowWork inside the slow-work loop and its interruption notice,
\* Idle otherwise; None before the upgrade.
SessionState(c) ==
    IF pc[c] \in {"off", "init"} THEN "None"
    ELSE IF pc[c] \in {"defer_remove", "defer_close", "closed"} \/ transport[c] = "closed"
         THEN "Closed"
    ELSE IF pc[c] \in {"slow", "interrupt", "interrupt_w"} THEN "ProcessingSlowWork"
    ELSE "Idle"

\* C31: a session moves only from Idle to ProcessingSlowWork (on a slow
\* token), from ProcessingSlowWork to Idle (at the ceiling) and from any
\* state to Closed; Closed is terminal: the session writes nothing more to
\* its connection and the connection is not registered again.
C31_SessionTransitions ==
    [][\A c \in Conns :
          /\ SessionState(c)' # SessionState(c) =>
                \/ SessionState(c) = "None" /\ SessionState(c)' = "Idle"
                \/ /\ SessionState(c) = "Idle" /\ SessionState(c)' = "ProcessingSlowWork"
                   /\ IsSlowToken(message'[c].payload)
                \/ /\ SessionState(c) = "ProcessingSlowWork" /\ SessionState(c)' = "Idle"
                   /\ ~LoopContinues(elapsed'[c])
                \/ SessionState(c)' = "Closed"
          /\ SessionState(c) = "Closed" =>
                /\ SessionState(c)' = "Closed"
                /\ sent'[c] # sent[c] =>
                      \E d \in Drains : dpc[d] = "write_w" /\ cur[d] = c /\ dpc'[d] = "close"
                /\ c \in connections' => c \in connections]_vars

\* A session that went through slow work to its ceiling, came back to Idle
\* and was closed by its peer.
C31_Witness ==
    /\ pc[1] = "closed" /\ ~Shutdown /\ peerClosed[1]
    /\ sent[1] = <<WelcomeMessage, CompleteResponse>>
    /\ 1 \notin connections


\* C32: for each connection it drains, the coordinator attempts the close
\* notification before it closes the transport and never after, and
\* CloseAllConnections raises the signal before its first notification.
C32_NotifyThenClose ==
    /\ [](\A d \in Drains :
            /\ dpc[d] \in {"write_w", "close"} => Shutdown
            /\ (dpc[d] = "write_w" /\ transport[cur[d]] = "closed") => pc[cur[d]] = "closed")
    /\ [](\A c \in Conns : Last(<<"">> \o sent[c]) = CloseFrame => Shutdown)
    /\ [][\A d \in Drains :
            /\ (dpc'[d] = "close" /\ dpc[d] # "close") => dpc[d] = "write_w"
            /\ (dpc[d] = "close" /\ dpc'[d] # "close") =>
                  /\ transport'[cur[d]] = "closed"
                  /\ cur[d] \notin snapshot'[d]]_vars

\* The coordinator has written the close frame to connection 1 and closed
\* it, while the connection's handler is still in its read.
C32_Witness ==
    /\ Shutdown /\ dpc[1] = "next" /\ cur[1] = 0
    /\ closeSent[1] /\ Last(sent[1]) = CloseFrame
    /\ transport[1] = "closed" /\ pc[1] = "read"


\* C33: the control listener does not block on one peer: while a peer's
\* handler is busy or waits for its next line, a peer that connects is
\* accepted and served by a handler of its own, and a line it sends is
\* processed, as long as the process runs and its own handler has not
\* returned on a failed write, without the first peer disconnecting.
C33_ListenerNeverBlocks ==
    /\ [](\A q \in CtlPeers :
            (qconn[q] = "backlog" /\ Controlling /\ ~crashed) => ENABLED ListenAccept(q))
    /\ \A q \in CtlPeers :
          (qconn[q] = "backlog") ~> (qconn[q] = "served" \/ crashed)
    /\ \A q \in CtlPeers :
          (qconn[q] \in {"backlog", "served"} /\ qin[q] # <<>>)
              ~> (qin[q] = <<>> \/ qconn[q] = "closed" \/ crashed)

\* Peer 1 is connected, has sent nothing and has not closed, so that its
\* handler waits for a line; peer 2, which connected after it, has had its
\* line processed and acknowledged.
C33_Witness ==
    /\ qpc[1] = "scan" /\ qsent[1] = 0 /\ ~qclosed[1]
    /\ qconn[2] = "served" /\ qout[2] = <<"Closing 0 WS connections">>
    /\ ~crashed


\* C34: a transport failure stays in its session: the steps by which a
\* handler leaves on a read or write error, deregisters and closes change
\* the position, the transport and the registry entry of no other session,
\* and they deregister and close its own connection.
C34_FailureConfined ==
    [][\A c \in Conns :
          (pc'[c] # pc[c] /\ pc'[c] \in {"defer_remove", "defer_close", "closed"}) =>
              /\ \A o \in Conns \ {c} :
                    /\ pc'[o] = pc[o]
                    /\ transport'[o] = transport[o]
                    /\ (o \in connections') = (o \in connections)
                    /\ sent'[o] = sent[o]
              /\ pc'[c] = "closed" => (transport'[c] = "closed" /\ c \notin connections')
              /\ crashed' = crashed]_vars

\* Connection 1 met a read error after its peer closed and is deregistered
\* and closed; connection 2 is registered, open and in its read.
C34_Witness ==
    /\ pc[1] = "closed" /\ peerClosed[1] /\ ~Shutdown /\ transport[1] = "closed"
    /\ pc[2] = "read" /\ transport[2] = "open" /\ ~peerClosed[2]
    /\ connections = {2}


\* C35: with retries enabled a client makes at most maxRetries + 1
\* connection attempts in all and has at most one socket connecting or open
\* at a time.
C35_OneSocketPerClient ==
    /\ attempts <= MaxRetries + 1
    /\ Cardinality({i \in 1..Len(socks) : socks[i].st \in {"connecting", "open"}}) <= 1

====
